---------------------------- MODULE Spec2Model ----------------------------
(***************************************************************************)
(* Sculpt automasking (editors/sculpt_paint/sculpt_automasking.cc) and the *)
(* sculpt attribute store it writes to (blenkernel/intern/paint.cc).       *)
(*                                                                         *)
(* Floats are rationals <<num, den>> in lowest terms, rounded to           *)
(* MantissaBits significant bits by every operation; <<0, 0>> is NaN (the  *)
(* result of 0/0).  Angles are integers in units of pi / PiUnits.  Vertex  *)
(* normals point along +z or -z, positions are <<x, z>> pairs of integers. *)
(***************************************************************************)
EXTENDS Integers, Sequences, FiniteSets, TLC

VARIABLES
  mesh,          \* index into Meshes: the object in sculpt mode (0 when
                 \*   the mesh is an argument in call)
  ss,            \* SculptSession scalars: stroke_id, last_automask_stroke_id,
                 \*   last_automasking_settings_hash, active_vert, active_face_set
  ss_cache,      \* ss.cache / ss.filter_cache: the running stroke or filter
  ss_attrs,      \* ss.attrs: the four automasking attribute buffers
  automasking,   \* the auto_mask::Cache of the running stroke (or NoCache)
  pc,            \* position in the stroke life cycle
  ret,           \* what the last operation did and returned
  hist,          \* the previous stroke: its cache and the calculators it ran
                 \*   (the allocator's blocks in the runs of the attribute store,
                 \*   the locations each task wrote in the runs of the parallel pass)
  call           \* arguments of the function applied by a single-function run

vars == <<mesh, ss, ss_cache, ss_attrs, automasking, pc, ret, hist, call>>

-----------------------------------------------------------------------------
(* Floats: a float is a rational <<numerator, denominator>> in lowest      *)
(* terms, an infinity <<1, 0>> or <<-1, 0>>, or NaN <<0, 0>>.  A float      *)
(* operation gives the exact result rounded to MantissaBits significant    *)
(* bits, ties to even.                                                     *)

MantissaBits == 5

Abs(i) == IF i < 0 THEN -i ELSE i

Sgn(i) == IF i < 0 THEN -1 ELSE IF i > 0 THEN 1 ELSE 0

RECURSIVE Gcd(_, _)
Gcd(a, b) == IF b = 0 THEN a ELSE Gcd(b, a % b)

RECURSIVE Pow2(_)
Pow2(k) == IF k = 0 THEN 1 ELSE 2 * Pow2(k - 1)

NaN == <<0, 0>>

IsNaN(a) == a = NaN

IsFinite(a) == a[2] # 0

\* n/d in lowest terms with a positive denominator, g being the greatest
\* common divisor; x/0 is an infinity and 0/0 is NaN
Reduce(n, d, g) == <<Sgn(d) * (n \div g), Abs(d) \div g>>

Rat(n, d) ==
  IF d = 0 THEN <<Sgn(n), 0>> ELSE Reduce(n, d, Gcd(Abs(n), Abs(d)))

\* n/d rounded to the nearest integer, ties to even
RoundHalfEven(n, d) ==
  LET q == n \div d
      r == n % d
  IN  IF 2 * r < d THEN q
      ELSE IF 2 * r > d THEN q + 1
      ELSE IF q % 2 = 0 THEN q ELSE q + 1

\* the mantissa m times 2^e
Scaled(m, e) == IF e >= 0 THEN <<m * Pow2(e), 1>> ELSE Rat(m, Pow2(-e))

\* the positive rational n/d times 2^e, rounded to MantissaBits bits
RECURSIVE RoundTo(_, _, _)
RoundTo(n, d, e) ==
  IF n >= d * Pow2(MantissaBits) THEN RoundTo(n, 2 * d, e + 1)
  ELSE IF n < d * Pow2(MantissaBits - 1) THEN RoundTo(2 * n, d, e - 1)
  ELSE Scaled(RoundHalfEven(n, d), e)

Signed(sign, r) == <<sign * r[1], r[2]>>

\* rounding of an exact result to a float
Fl(a) ==
  IF ~IsFinite(a) \/ a[1] = 0 THEN a
  ELSE Signed(Sgn(a[1]), RoundTo(Abs(a[1]), a[2], 0))

RZero == <<0, 1>>
ROne == <<1, 1>>
RHalf == <<1, 2>>

\* float(i)
RInt(i) == Fl(<<i, 1>>)

RMul(a, b) == Fl(Rat(a[1] * b[1], a[2] * b[2]))

RAdd(a, b) ==
  IF ~IsFinite(a) /\ ~IsFinite(b)
  THEN (IF a = b THEN a ELSE NaN)
  ELSE Fl(Rat(a[1] * b[2] + b[1] * a[2], a[2] * b[2]))

RSub(a, b) == RAdd(a, <<-b[1], b[2]>>)

RDiv(a, b) == Fl(Rat(a[1] * b[2], a[2] * b[1]))

\* comparisons with NaN are false, as in IEEE arithmetic
RLt(a, b) ==
  /\ ~IsNaN(a) /\ ~IsNaN(b)
  /\ IF ~IsFinite(a) /\ ~IsFinite(b) THEN a[1] < b[1]
     ELSE a[1] * b[2] < b[1] * a[2]

RLeq(a, b) == ~IsNaN(a) /\ ~IsNaN(b) /\ (a = b \/ RLt(a, b))

\* fabsf
RAbs(a) == <<Abs(a[1]), a[2]>>

InUnit(a) == RLeq(RZero, a) /\ RLeq(a, ROne)

-----------------------------------------------------------------------------
(* eAutomasking_flag: a flag word is the set of its bits *)

TOPOLOGY == "TOPOLOGY"
FACE_SETS == "FACE_SETS"
BOUNDARY_EDGES == "BOUNDARY_EDGES"
BOUNDARY_FACE_SETS == "BOUNDARY_FACE_SETS"
CAVITY_NORMAL == "CAVITY_NORMAL"
CAVITY_INVERTED == "CAVITY_INVERTED"
CAVITY_USE_CURVE == "CAVITY_USE_CURVE"
BRUSH_NORMAL == "BRUSH_NORMAL"
VIEW_NORMAL == "VIEW_NORMAL"
VIEW_OCCLUSION == "VIEW_OCCLUSION"

CAVITY_ALL == {CAVITY_NORMAL, CAVITY_INVERTED}

AllFlags ==
  {TOPOLOGY, FACE_SETS, BOUNDARY_EDGES, BOUNDARY_FACE_SETS, CAVITY_NORMAL,
   CAVITY_INVERTED, CAVITY_USE_CURVE, BRUSH_NORMAL, VIEW_NORMAL, VIEW_OCCLUSION}

\* (flags & mode) != 0
Has(flags, mode) == flags \cap mode # {}

\* brush == nullptr
NoBrush == [type |-> "NONE", dyntopo |-> FALSE]

\* mode_enabled(sd, br, mode)
mode_enabled(sd, br, mode) ==
  LET automasking_flags ==
        IF br # NoBrush THEN sd.automasking_flags \cup br.automasking_flags
        ELSE sd.automasking_flags
  IN  Has(automasking_flags, mode)

\* is_enabled without the test of the inverted cavity bit
is_enabled_cavity_normal_only(sd, br, dyntopo) ==
  /\ ~(br # NoBrush /\ dyntopo)
  /\ \E mode \in {TOPOLOGY, FACE_SETS, BOUNDARY_EDGES, BOUNDARY_FACE_SETS,
                   BRUSH_NORMAL, VIEW_NORMAL, CAVITY_NORMAL} :
       mode_enabled(sd, br, {mode})

\* is_enabled(sd, ss, br); dyntopo is dyntopo::stroke_is_dyntopo(*ss, *br)
is_enabled(sd, br, dyntopo) ==
  IF br # NoBrush /\ dyntopo THEN FALSE
  ELSE \/ mode_enabled(sd, br, {TOPOLOGY})
       \/ mode_enabled(sd, br, {FACE_SETS})
       \/ mode_enabled(sd, br, {BOUNDARY_EDGES})
       \/ mode_enabled(sd, br, {BOUNDARY_FACE_SETS})
       \/ mode_enabled(sd, br, {BRUSH_NORMAL})
       \/ mode_enabled(sd, br, {VIEW_NORMAL})
       \/ mode_enabled(sd, br, CAVITY_ALL)

CavityBits == CAVITY_ALL \cup {CAVITY_USE_CURVE} \cup {CAVITY_NORMAL}

\* as calc_effective_bits, with the plain union of the two flag words
calc_effective_bits_union(sd, brush) ==
  IF brush # NoBrush
  THEN sd.automasking_flags \cup brush.automasking_flags
  ELSE sd.automasking_flags

\* calc_effective_bits(sd, brush)
calc_effective_bits(sd, brush) ==
  IF brush # NoBrush
  THEN LET flags == sd.automasking_flags \cup brush.automasking_flags
       IN  IF Has(brush.automasking_flags, CAVITY_ALL)
           THEN (flags \ CavityBits) \cup brush.automasking_flags
           ELSE IF Has(sd.automasking_flags, CAVITY_ALL)
           THEN (flags \ CavityBits) \cup sd.automasking_flags
           ELSE flags
  ELSE sd.automasking_flags

-----------------------------------------------------------------------------
(* Meshes.  Vertices are 0 .. n-1.  What the collaborating subsystems     *)
(* answer (boundary test, face sets, occlusion ray cast, symmetry) is data *)
(* of the mesh.                                                            *)

MkMesh(pbvh, n, edges, co, no, boundary, face_sets, occluded, symm) ==
  [pbvh |-> pbvh, n |-> n, edges |-> edges, co |-> co, no |-> no,
   boundary |-> boundary, face_sets |-> face_sets, occluded |-> occluded,
   symm |-> symm]

\* a bumpy open strip 0-1-2 and a second island 3-4 whose edge is collapsed:
\* vertices 3 and 4 have the same position
StripMesh ==
  MkMesh("Mesh", 5, {{0, 1}, {1, 2}, {3, 4}},
         <<<<0, 0>>, <<1, 1>>, <<2, 0>>, <<4, 0>>, <<4, 0>>>>,
         <<1, 1, 1, -1, 1>>, {0, 3},
         <<{1}, {1, 2}, {2}, {1}, {1}>>, {2}, 0)

\* a flat closed fan around vertex 0, mirrored in x
FanMesh ==
  MkMesh("BMesh", 4, {{0, 1}, {0, 2}, {0, 3}, {1, 2}, {2, 3}},
         <<<<0, 0>>, <<-1, 0>>, <<1, 0>>, <<2, 0>>>>,
         <<1, 1, 1, 1>>, {3},
         <<{1}, {1}, {1, 2}, {2}>>, {}, 1)

\* a bumpy open line 0-1-2-3
LineMesh ==
  MkMesh("Mesh", 4, {{0, 1}, {1, 2}, {2, 3}},
         <<<<0, 0>>, <<1, 1>>, <<2, 0>>, <<3, 0>>>>,
         <<1, 1, -1, 1>>, {0, 3},
         <<{1}, {1}, {1, 2}, {2}>>, {1}, 0)

Meshes == <<StripMesh, FanMesh, LineMesh>>

Verts(m) == 0 .. (m.n - 1)

\* SCULPT_vertex_count_get
SCULPT_vertex_count_get(m) == m.n

\* SCULPT_vertex_co_get
Co(m, v) == m.co[v + 1]

\* SCULPT_vertex_normal_get: +1 is the +z direction, -1 the -z direction
No(m, v) == m.no[v + 1]

Neighbors(m, v) == {u \in Verts(m) : {u, v} \in m.edges /\ u # v}

RECURSIVE SortedSeq(_)
SortedSeq(S) ==
  IF S = {} THEN <<>>
  ELSE LET lo == CHOOSE x \in S : \A y \in S : x <= y
       IN  <<lo>> \o SortedSeq(S \ {lo})

\* SCULPT_VERTEX_NEIGHBORS_ITER_BEGIN: the neighbours in iteration order
NeighborSeq(m, v) == SortedSeq(Neighbors(m, v))

\* boundary::vert_is_boundary
vert_is_boundary(m, v) == v \in m.boundary

\* face_set::vert_has_face_set
vert_has_face_set(m, v, face_set) == face_set \in m.face_sets[v + 1]

\* face_set::vert_has_unique_face_set
vert_has_unique_face_set(m, v) == Cardinality(m.face_sets[v + 1]) = 1

\* face_set::vert_face_set_get
vert_face_set_get(m, v) ==
  CHOOSE f \in m.face_sets[v + 1] : \A g \in m.face_sets[v + 1] : f >= g

\* SCULPT_vertex_is_occluded
SCULPT_vertex_is_occluded(m, v) == v \in m.occluded

RECURSIVE Reach(_, _)
Reach(m, S) ==
  LET T == S \cup UNION {Neighbors(m, v) : v \in S}
  IN  IF T = S THEN S ELSE Reach(m, T)

\* islands::vert_id_get: the connected component, named by its least vertex
vert_id_get(m, v) == CHOOSE x \in Reach(m, {v}) : \A y \in Reach(m, {v}) : x <= y

-----------------------------------------------------------------------------
(* Angular falloff *)

\* pi, in angle units
PiUnits == 4

\* safe_acosf(dot_v3v3(normal, normal_v)) for a direction at angle dir from
\* +z and a vertex normal along +z or -z
AngleTo(dir, nz) == IF nz = 1 THEN dir ELSE PiUnits - dir

\* normal_calc, from the angle on.  In t * t * (3.0 - 2.0 * t) the product
\* t * t is a float and the rest is double arithmetic, taken as exact here,
\* whose result is rounded as it is assigned to t
normal_calc(angle, limit_lower, limit_upper) ==
  IF angle > limit_lower /\ angle < limit_upper
  THEN LET blend(t, tt) == Fl(Rat(tt[1] * (3 * t[2] - 2 * t[1]), tt[2] * t[2]))
           smoothstep(t) == blend(t, RMul(t, t))
       IN  smoothstep(RSub(ROne, RDiv(RInt(angle - limit_lower),
                                      RInt(limit_upper - limit_lower))))
  ELSE IF angle > limit_upper THEN RZero
  ELSE ROne

\* is_constrained_by_radius(br)
is_constrained_by_radius(br) ==
  IF br = NoBrush THEN FALSE
  ELSE IF br.falloff_shape = "TUBE" THEN FALSE
  ELSE br.type \in {"GRAB", "THUMB", "ROTATE"}

\* boundary_propagation_steps(sd, brush)
boundary_propagation_steps(sd, brush) ==
  IF brush # NoBrush /\ Has(brush.automasking_flags, {BOUNDARY_EDGES, BOUNDARY_FACE_SETS})
  THEN brush.propagation_steps
  ELSE sd.propagation_steps

\* needs_factors_cache without its boundary propagation test
needs_factors_cache_no_boundary(sd, brush) ==
  LET automasking_flags == calc_effective_bits(sd, brush)
  IN  IF TOPOLOGY \in automasking_flags /\ brush # NoBrush /\ is_constrained_by_radius(brush)
      THEN TRUE
      ELSE IF VIEW_NORMAL \in automasking_flags
      THEN brush # NoBrush /\ brush.propagation_steps # 1
      ELSE FALSE

\* needs_factors_cache(sd, brush)
needs_factors_cache(sd, brush) ==
  LET automasking_flags == calc_effective_bits(sd, brush)
  IN  IF TOPOLOGY \in automasking_flags /\ brush # NoBrush /\ is_constrained_by_radius(brush)
      THEN TRUE
      ELSE IF VIEW_NORMAL \in automasking_flags
      THEN brush # NoBrush /\ brush.propagation_steps # 1
      ELSE IF Has(automasking_flags, {BOUNDARY_EDGES, BOUNDARY_FACE_SETS})
      THEN boundary_propagation_steps(sd, brush) # 1
      ELSE FALSE

-----------------------------------------------------------------------------
(* Precompute calculators.  A buffer is a function on the vertices; NoAttr *)
(* is a null attribute pointer.                                            *)

NoAttr == <<>>

EDGE_DISTANCE_INF == -1

\* the propagation pass when any neighbour with a distance counts, whatever
\* the pass it got it in
RECURSIVE PropagateFrom_any_distance(_, _, _, _)
PropagateFrom_any_distance(m, edge_distance, propagation_it, i) ==
  IF i >= m.n THEN edge_distance
  ELSE IF edge_distance[i] # EDGE_DISTANCE_INF
  THEN PropagateFrom_any_distance(m, edge_distance, propagation_it, i + 1)
  ELSE LET hit == \E u \in Neighbors(m, i) : edge_distance[u] # EDGE_DISTANCE_INF
       IN  PropagateFrom_any_distance(m,
                         IF hit THEN [edge_distance EXCEPT ![i] = propagation_it + 1]
                         ELSE edge_distance,
                         propagation_it, i + 1)

\* one pass over the vertices of init_boundary_masking's propagation loop,
\* from vertex i on, updating edge_distance in place
RECURSIVE PropagateFrom(_, _, _, _)
PropagateFrom(m, edge_distance, propagation_it, i) ==
  IF i >= m.n THEN edge_distance
  ELSE IF edge_distance[i] # EDGE_DISTANCE_INF
  THEN PropagateFrom(m, edge_distance, propagation_it, i + 1)
  ELSE LET hit == \E u \in Neighbors(m, i) : edge_distance[u] = propagation_it
       IN  PropagateFrom(m,
                         IF hit THEN [edge_distance EXCEPT ![i] = propagation_it + 1]
                         ELSE edge_distance,
                         propagation_it, i + 1)

RECURSIVE PropagateSteps(_, _, _, _)
PropagateSteps(m, edge_distance, propagation_it, propagation_steps) ==
  IF propagation_it >= propagation_steps THEN edge_distance
  ELSE PropagateSteps(m, PropagateFrom(m, edge_distance, propagation_it, 0),
                      propagation_it + 1, propagation_steps)

\* the edge_distance array of init_boundary_masking after its second loop
BoundaryEdgeDistance(m, mode, propagation_steps) ==
  LET initial == [i \in Verts(m) |->
                    IF \/ mode = "Edges" /\ vert_is_boundary(m, i)
                       \/ mode = "FaceSets" /\ ~vert_has_unique_face_set(m, i)
                    THEN 0 ELSE EDGE_DISTANCE_INF]
  IN  PropagateSteps(m, initial, 0, propagation_steps)

\* init_boundary_masking(ob, mode, propagation_steps), on the factor buffer
init_boundary_masking(m, factor, mode, propagation_steps) ==
  LET pow2f(p) == RMul(p, p)
      scaled(edge_distance) ==
        [i \in Verts(m) |->
           IF edge_distance[i] = EDGE_DISTANCE_INF THEN factor[i]
           ELSE RMul(factor[i],
                     RSub(ROne, pow2f(RSub(ROne, RDiv(RInt(edge_distance[i]),
                                                      RInt(propagation_steps))))))]
  IN  scaled(BoundaryEdgeDistance(m, mode, propagation_steps))

\* init_face_sets_masking(sd, ob); enabled is is_enabled(sd, &ss, brush) for
\* the paint's brush
init_face_sets_masking(m, factor, enabled, active_face_set) ==
  IF ~enabled THEN factor
  ELSE [i \in Verts(m) |->
          IF ~vert_has_face_set(m, i, active_face_set) THEN RZero ELSE factor[i]]

FLT_MAX == 30000

\* symmetry_flip for pass i: pass 1 mirrors x
symmetry_flip(co, i) == IF i = 1 THEN <<-co[1], co[2]>> ELSE co

len_squared(a, b) == (a[1] - b[1]) * (a[1] - b[1]) + (a[2] - b[2]) * (a[2] - b[2])

\* SCULPT_is_vertex_inside_brush_radius_symm(vertex, br_co, radius, symm)
SCULPT_is_vertex_inside_brush_radius_symm(vertex, br_co, radius, symm) ==
  \E i \in 0 .. symm : len_squared(symmetry_flip(br_co, i), vertex) < radius * radius

\* flood.add_initial_with_symmetry: the active vertex and, per mirror pass,
\* the vertex nearest to its mirrored position within the radius
add_initial_with_symmetry(m, active_vert, radius) ==
  LET mirrored == symmetry_flip(Co(m, active_vert), 1)
      near == {v \in Verts(m) : len_squared(Co(m, v), mirrored) <= radius * radius}
      best == {v \in near : \A u \in near :
                 \/ len_squared(Co(m, v), mirrored) < len_squared(Co(m, u), mirrored)
                 \/ len_squared(Co(m, v), mirrored) = len_squared(Co(m, u), mirrored)
                    /\ v <= u}
  IN  <<active_vert>> \o (IF m.symm = 1 THEN SortedSeq(best) ELSE <<>>)

\* a flood callback that accepts no candidate
topology_accept_none(m, p, to_v) == FALSE

\* the flood callbacks of fill_topology_automasking_factors_mesh, _grids and
\* _bmesh: the return value for the candidate to_v.  The bmesh callback
\* tests the active vertex' position, not the candidate's.
topology_accept(m, p, to_v) ==
  p.use_radius \/
    SCULPT_is_vertex_inside_brush_radius_symm(
      IF m.pbvh = "BMesh" THEN p.location ELSE Co(m, to_v),
      p.location, p.radius, m.symm)

\* flood.execute's loop over the neighbours of from_v
RECURSIVE FloodNeighbors(_, _, _, _, _)
FloodNeighbors(m, p, from_v, todo, st) ==
  IF todo = <<>> THEN st
  ELSE LET to_v == Head(todo)
       IN  IF to_v \in st.visited THEN FloodNeighbors(m, p, from_v, Tail(todo), st)
           ELSE FloodNeighbors(m, p, from_v, Tail(todo),
                  [queue |-> IF topology_accept(m, p, to_v)
                             THEN Append(st.queue, to_v) ELSE st.queue,
                   visited |-> st.visited \cup {to_v},
                   factor |-> [st.factor EXCEPT ![to_v] = ROne, ![from_v] = ROne]])

\* flood.execute
RECURSIVE FloodExecute(_, _, _)
FloodExecute(m, p, st) ==
  IF st.queue = <<>> THEN st.factor
  ELSE LET from_v == Head(st.queue)
       IN  FloodExecute(m, p,
             FloodNeighbors(m, p, from_v, NeighborSeq(m, from_v),
                            [st EXCEPT !.queue = Tail(st.queue)]))

\* fill_topology_automasking_factors and the three fills it dispatches to;
\* stroke is "ss.cache != nullptr", brush the paint's brush
fill_topology_automasking_factors(m, factor, stroke, cache_radius, brush, active_vert) ==
  LET radius == IF stroke THEN cache_radius ELSE FLT_MAX
      p == [use_radius |-> stroke /\ is_constrained_by_radius(brush),
            radius |-> radius,
            location |-> Co(m, active_vert)]
  IN  FloodExecute(m, p, [queue |-> add_initial_with_symmetry(m, active_vert, radius),
                          visited |-> {},
                          factor |-> factor])

-----------------------------------------------------------------------------
(* Cavity *)

\* len_v3v3, rounded down to a multiple of 1/16
len_v3v3(a, b) ==
  LET d2 == len_squared(a, b)
      far == 16 * (Abs(a[1] - b[1]) + Abs(a[2] - b[2]))
  IN  Fl(Rat(CHOOSE r \in 0 .. far : r * r <= 256 * d2 /\ (r + 1) * (r + 1) > 256 * d2, 16))

\* signf
signf(f) == IF RLt(f, RZero) THEN RInt(-1) ELSE ROne

\* CLAMP(a, 0, 1)
CLAMP01(a) == IF RLt(a, RZero) THEN RZero ELSE IF RLt(ROne, a) THEN ROne ELSE a

\* calc_cavity_factor(automasking, factor): the two-argument overload
calc_cavity_factor(settings, factor_sum) ==
  LET sign == signf(factor_sum)
      scaled == RMul(RMul(RAbs(factor_sum), settings.cavity_factor), RInt(50))
      inverted(factor) ==
        IF CAVITY_INVERTED \in settings.flags THEN RSub(ROne, factor) ELSE factor
  IN  inverted(CLAMP01(RAdd(RMul(RMul(scaled, sign), RHalf), RHalf)))

\* the neighbour loop of calc_blurred_cavity for the dequeued vertex v
RECURSIVE CavityNeighbors(_, _, _, _)
CavityNeighbors(depth, todo, queue, visit) ==
  IF todo = <<>> THEN [queue |-> queue, visit |-> visit]
  ELSE LET v2 == Head(todo)
       IN  IF v2 \in visit THEN CavityNeighbors(depth, Tail(todo), queue, visit)
           ELSE CavityNeighbors(depth, Tail(todo),
                                Append(queue, <<v2, depth + 1>>), visit \cup {v2})

\* the while loop of calc_blurred_cavity; queue holds the pending
\* <<vertex, depth>> entries from start to end
RECURSIVE CavityGather(_, _, _, _)
CavityGather(m, steps, vertex, st) ==
  IF st.queue = <<>> THEN st
  ELSE LET v == Head(st.queue)[1]
           depth == Head(st.queue)[2]
           co == Co(m, v)
           inner == depth < steps
           nb == IF depth >= steps
                 THEN [queue |-> Tail(st.queue), visit |-> st.visit]
                 ELSE CavityNeighbors(depth, NeighborSeq(m, v), Tail(st.queue), st.visit)
       IN  CavityGather(m, steps, vertex,
             [queue |-> nb.queue,
              visit |-> nb.visit,
              sco1 |-> <<RAdd(st.sco1[1], RInt(co[1])), RAdd(st.sco1[2], RInt(co[2]))>>,
              sno1 |-> st.sno1 + No(m, v),
              len1_sum |-> RAdd(st.len1_sum, len_v3v3(co, Co(m, vertex))),
              sco1_len |-> st.sco1_len + 1,
              sco2 |-> IF inner
                       THEN <<RAdd(st.sco2[1], RInt(co[1])), RAdd(st.sco2[2], RInt(co[2]))>>
                       ELSE st.sco2,
              sno2 |-> IF inner THEN st.sno2 + No(m, v) ELSE st.sno2,
              sco2_len |-> IF inner THEN st.sco2_len + 1 ELSE st.sco2_len])

\* the statements of calc_blurred_cavity after its while loop, g being the
\* sums the loop gathered
calc_blurred_cavity_end(m, settings, vertex, g) ==
  LET sco1z == IF g.sco1_len = 0 THEN RInt(Co(m, vertex)[2])
               ELSE RDiv(g.sco1[2], RInt(g.sco1_len))
      len1_sum == IF g.sco1_len = 0 THEN g.len1_sum
                  ELSE RDiv(g.len1_sum, RInt(g.sco1_len))
      sco2z == IF g.sco2_len = 0 THEN RInt(Co(m, vertex)[2])
               ELSE RDiv(g.sco2[2], RInt(g.sco2_len))
      sno2 == IF Sgn(g.sno2) = 0 THEN No(m, vertex) ELSE Sgn(g.sno2)
      \* dot_v3v3(sco1 - sco2, sno2): sno2 has a z component only
      dot == RMul(RSub(sco1z, sco2z), RInt(sno2))
      factor_sum == RDiv(dot, len1_sum)
  IN  calc_cavity_factor(settings, factor_sum)

\* calc_blurred_cavity: the value it stores in automasking_cavity[vertex]
calc_blurred_cavity(m, settings, blur_steps, vertex) ==
  calc_blurred_cavity_end(m, settings, vertex,
    CavityGather(m, blur_steps + 1, vertex,
      [queue |-> <<<<vertex, 0>>>>, visit |-> {vertex},
       sco1 |-> <<RZero, RZero>>, sno1 |-> 0, len1_sum |-> RZero, sco1_len |-> 0,
       sco2 |-> <<RZero, RZero>>, sno2 |-> 0, sco2_len |-> 0]))

\* BKE_curvemapping_evaluateF(curve, 0, value) for the curves of the model
BKE_curvemapping_evaluateF(curve, value) ==
  IF curve = "SQUARE" THEN RMul(value, value) ELSE value

\* the control points of a curve as settings_hash reads them
CurvePoints(curve) == IF curve = "SQUARE" THEN <<0, 0, 1, 1, 2, 4>> ELSE <<0, 0, 2, 2>>

\* automasking_factor_end without its store
automasking_factor_end_no_stamp(attrs, cache, vertex) == attrs

\* automasking_factor_end: the stroke id stamp buffer after the call
automasking_factor_end(attrs, cache, vertex) ==
  IF attrs.automasking_stroke_id # NoAttr
  THEN [attrs EXCEPT !.automasking_stroke_id[vertex] = cache.current_stroke_id]
  ELSE attrs

\* as calc_cavity_factor_vert, with one stamp for the whole mesh (that of
\* vertex 0) deciding whether the cavity value of a vertex is recomputed
calc_cavity_factor_vert_shared_stamp(m, cache, attrs, vertex) ==
  LET flip(f) == IF CAVITY_INVERTED \in cache.settings.flags THEN RSub(ROne, f) ELSE f
      curved(factor) ==
        IF Has(cache.settings.flags, CAVITY_ALL) /\ CAVITY_USE_CURVE \in cache.settings.flags
        THEN flip(BKE_curvemapping_evaluateF(cache.settings.cavity_curve, flip(factor)))
        ELSE factor
      done(attrs2) == [value |-> curved(attrs2.automasking_cavity[vertex]), attrs |-> attrs2]
  IN  done(IF attrs.automasking_stroke_id[0] # cache.current_stroke_id
           THEN [attrs EXCEPT !.automasking_cavity[vertex] =
                   calc_blurred_cavity(m, cache.settings,
                                       cache.settings.cavity_blur_steps, vertex)]
           ELSE attrs)

\* calc_cavity_factor(depsgraph, automasking, object, vertex): the
\* four-argument overload; returns the factor and the attributes it wrote
calc_cavity_factor_vert(m, cache, attrs, vertex) ==
  LET stroke_id == attrs.automasking_stroke_id[vertex]
      inverted == CAVITY_INVERTED \in cache.settings.flags
      flip(f) == IF inverted THEN RSub(ROne, f) ELSE f
      curved(factor) ==
        IF Has(cache.settings.flags, CAVITY_ALL) /\ CAVITY_USE_CURVE \in cache.settings.flags
        THEN flip(BKE_curvemapping_evaluateF(cache.settings.cavity_curve, flip(factor)))
        ELSE factor
      \* after the recomputation, when the stamp is stale
      done(attrs2) == [value |-> curved(attrs2.automasking_cavity[vertex]), attrs |-> attrs2]
  IN  done(IF stroke_id # cache.current_stroke_id
           THEN [attrs EXCEPT !.automasking_cavity[vertex] =
                   calc_blurred_cavity(m, cache.settings,
                                       cache.settings.cavity_blur_steps, vertex)]
           ELSE attrs)

\* calc_view_occlusion_factor: TRUE when the stored state is "occluded" (2)
calc_view_occlusion_factor(m, cache, attrs, vertex, stroke_id) ==
  LET attrs2 == IF stroke_id # cache.current_stroke_id
                THEN [attrs EXCEPT !.automasking_occlusion[vertex] =
                        IF SCULPT_vertex_is_occluded(m, vertex) THEN 2 ELSE 1]
                ELSE attrs
  IN  [value |-> attrs2.automasking_occlusion[vertex] = 2, attrs |-> attrs2]

\* the normal a query compares with: orig_normal when given (0: not given)
NormalOf(m, vertex, orig_normal) == IF orig_normal # 0 THEN orig_normal ELSE No(m, vertex)

\* calc_brush_normal_factor with the limits of the view normal mode
calc_brush_normal_factor_view_limits(m, cache, sc, vertex, orig_normal) ==
  normal_calc(2 * AngleTo(sc.initial_normal, NormalOf(m, vertex, orig_normal)),
              2 * cache.settings.view_normal_limit - cache.settings.view_normal_falloff,
              2 * cache.settings.view_normal_limit + cache.settings.view_normal_falloff)

\* calc_brush_normal_factor; angles are doubled so that falloff * 0.5 is whole
calc_brush_normal_factor(m, cache, sc, vertex, orig_normal) ==
  LET falloff == cache.settings.start_normal_falloff
  IN  normal_calc(2 * AngleTo(sc.initial_normal, NormalOf(m, vertex, orig_normal)),
                  2 * cache.settings.start_normal_limit - falloff,
                  2 * cache.settings.start_normal_limit + falloff)

\* calc_view_normal_factor
calc_view_normal_factor(m, cache, sc, vertex, orig_normal) ==
  LET falloff == cache.settings.view_normal_falloff
  IN  normal_calc(AngleTo(sc.view_normal, NormalOf(m, vertex, orig_normal)),
                  cache.settings.view_normal_limit,
                  cache.settings.view_normal_limit + falloff)

-----------------------------------------------------------------------------
(* The factor query *)

NoCache == <<>>

\* ss.cache == nullptr and ss.filter_cache == nullptr
NoStroke == [kind |-> "none"]

UCHAR_MAX == 255

\* factor_get: the value returned, the attributes after the call and the
\* return statement taken
factor_get(m, cache, sc, attrs, vert, orig_normal) ==
  LET flags == cache.settings.flags
      \* the end of the live path: mask *= cavity, then
      \* return automasking_factor_end(ss, automasking, vert, mask)
      end(value, cav, path) ==
        [value |-> RMul(value, cav.value),
         attrs |-> automasking_factor_end(cav.attrs, cache, vert),
         path |-> path]
      cavity(a) == IF Has(flags, CAVITY_ALL)
                   THEN calc_cavity_factor_vert(m, cache, a, vert)
                   ELSE [value |-> ROne, attrs |-> a]
      \* the factor cache path: factor *= cavity, then factor * mask
      cached(mask, cav) ==
        [value |-> RMul(RMul(attrs.automasking_factor[vert], cav.value), mask),
         attrs |-> automasking_factor_end(cav.attrs, cache, vert),
         path |-> "buffer"]
      \* mask *= calc_view_normal_factor(...)
      view_normal(mask) ==
        IF sc # NoStroke /\ VIEW_NORMAL \in flags
        THEN RMul(mask, calc_view_normal_factor(m, cache, sc, vert, orig_normal))
        ELSE mask
      \* the live path after the occlusion test occ
      live(mask, occ) ==
        IF occ.value
        THEN [value |-> RZero, attrs |-> automasking_factor_end(occ.attrs, cache, vert),
              path |-> "occluded"]
        ELSE IF /\ ~cache.settings.topology_use_brush_limit
                /\ TOPOLOGY \in flags
                /\ vert_id_get(m, vert) # cache.settings.initial_island_nr
        THEN [value |-> RZero, attrs |-> occ.attrs, path |-> "island"]
        ELSE IF /\ FACE_SETS \in flags
                /\ ~vert_has_face_set(m, vert, cache.settings.initial_face_set)
        THEN [value |-> RZero, attrs |-> occ.attrs, path |-> "face_set"]
        ELSE IF BOUNDARY_EDGES \in flags /\ vert_is_boundary(m, vert)
        THEN [value |-> RZero, attrs |-> occ.attrs, path |-> "boundary_edge"]
        ELSE IF /\ BOUNDARY_FACE_SETS \in flags
                /\ ~(/\ sc.kind = "stroke"
                     /\ sc.brush # NoBrush
                     /\ sc.brush.type = "DRAW_FACE_SETS"
                     /\ vert_face_set_get(m, vert) = sc.paint_face_set)
                /\ ~vert_has_unique_face_set(m, vert)
        THEN [value |-> RZero, attrs |-> occ.attrs, path |-> "boundary_face_set"]
        ELSE end(view_normal(mask), cavity(occ.attrs), "live")
      \* the function from the brush normal test on, mask being its result
      rest(mask) ==
        IF attrs.automasking_factor # NoAttr
        THEN cached(mask, cavity(attrs))
        ELSE live(mask,
                  IF {VIEW_OCCLUSION, VIEW_NORMAL} \subseteq flags
                  THEN calc_view_occlusion_factor(
                         m, cache, attrs, vert,
                         IF attrs.automasking_stroke_id # NoAttr
                         THEN attrs.automasking_stroke_id[vert] ELSE UCHAR_MAX)
                  ELSE [value |-> FALSE, attrs |-> attrs])
  IN  rest(IF sc # NoStroke /\ BRUSH_NORMAL \in flags
           THEN calc_brush_normal_factor(m, cache, sc, vert, orig_normal)
           ELSE ROne)

-----------------------------------------------------------------------------
(* Stroke start *)

\* cache_settings_update with the brush limit of the topology flood taken to
\* be in use from the start
cache_settings_update_brush_limit(sd, brush, active_face_set) ==
  LET vn == IF brush # NoBrush /\ VIEW_NORMAL \in brush.automasking_flags THEN brush ELSE sd
      sn == IF brush # NoBrush /\ BRUSH_NORMAL \in brush.automasking_flags THEN brush ELSE sd
      cv == IF brush # NoBrush /\ Has(brush.automasking_flags, CAVITY_ALL) THEN brush ELSE sd
  IN  [flags |-> calc_effective_bits(sd, brush),
       initial_face_set |-> active_face_set,
       initial_island_nr |-> 0,
       topology_use_brush_limit |-> TRUE,
       view_normal_limit |-> vn.view_normal_limit,
       view_normal_falloff |-> vn.view_normal_falloff,
       start_normal_limit |-> sn.start_normal_limit,
       start_normal_falloff |-> sn.start_normal_falloff,
       cavity_curve |-> cv.cavity_curve,
       cavity_factor |-> cv.cavity_factor,
       cavity_blur_steps |-> cv.cavity_blur_steps]

\* cache_settings_update
cache_settings_update(sd, brush, active_face_set) ==
  LET vn == IF brush # NoBrush /\ VIEW_NORMAL \in brush.automasking_flags THEN brush ELSE sd
      sn == IF brush # NoBrush /\ BRUSH_NORMAL \in brush.automasking_flags THEN brush ELSE sd
      cv == IF brush # NoBrush /\ Has(brush.automasking_flags, CAVITY_ALL) THEN brush ELSE sd
  IN  [flags |-> calc_effective_bits(sd, brush),
       initial_face_set |-> active_face_set,
       initial_island_nr |-> 0,
       topology_use_brush_limit |-> FALSE,
       view_normal_limit |-> vn.view_normal_limit,
       view_normal_falloff |-> vn.view_normal_falloff,
       start_normal_limit |-> sn.start_normal_limit,
       start_normal_falloff |-> sn.start_normal_falloff,
       cavity_curve |-> cv.cavity_curve,
       cavity_factor |-> cv.cavity_factor,
       cavity_blur_steps |-> cv.cavity_blur_steps]

\* BLI_hash_int_2d chains: the hash is the sequence of the words fed to it
BLI_hash_int_2d(hash, words) == hash \o words

\* settings_hash(ob, automasking)
settings_hash(m, settings) ==
  LET h0 == BLI_hash_int_2d(<<settings.flags>>, <<SCULPT_vertex_count_get(m)>>)
      h1 == IF Has(settings.flags, CAVITY_ALL)
            THEN BLI_hash_int_2d(
                   BLI_hash_int_2d(h0, <<settings.cavity_blur_steps,
                                         settings.cavity_factor[1],
                                         settings.cavity_factor[2]>>),
                   CurvePoints(settings.cavity_curve))
            ELSE h0
      h2 == IF FACE_SETS \in settings.flags
            THEN BLI_hash_int_2d(h1, <<settings.initial_face_set>>) ELSE h1
      h3 == IF VIEW_NORMAL \in settings.flags
            THEN BLI_hash_int_2d(h2, <<settings.view_normal_falloff,
                                       settings.view_normal_limit>>)
            ELSE h2
  IN  IF BRUSH_NORMAL \in settings.flags
      THEN BLI_hash_int_2d(h3, <<settings.start_normal_falloff,
                                 settings.start_normal_limit>>)
      ELSE h3

\* brush_type_can_reuse_automask with the grab brush added to the list
brush_type_can_reuse_automask_grab(sculpt_brush_type) ==
  sculpt_brush_type \in {"PAINT", "SMEAR", "MASK", "DRAW_FACE_SETS", "GRAB"}

\* brush_type_can_reuse_automask
brush_type_can_reuse_automask(sculpt_brush_type) ==
  sculpt_brush_type \in {"PAINT", "SMEAR", "MASK", "DRAW_FACE_SETS"}

\* dyntopo::stroke_is_dyntopo(ss, brush)
stroke_is_dyntopo(m, brush) == m.pbvh = "BMesh" /\ brush.dyntopo

\* BKE_sculpt_attribute_ensure: the attribute's buffer, created zeroed when
\* the attribute does not exist
BKE_sculpt_attribute_ensure(m, buffer, zero) ==
  IF buffer # NoAttr THEN buffer ELSE [v \in Verts(m) |-> zero]

\* normal_occlusion_automasking_fill(depsgraph, automasking, ob, mode)
normal_occlusion_automasking_fill(m, cache, sc, stroke_id, attrs, mode) ==
  LET occ(i) == calc_view_occlusion_factor(m, cache, attrs, i, UCHAR_MAX)
      both == {VIEW_NORMAL, VIEW_OCCLUSION} \subseteq mode
      f(i) ==
        LET f0 == attrs.automasking_factor[i]
            f1 == IF both THEN RMul(f0, IF occ(i).value THEN ROne ELSE RZero) ELSE f0
        IN  IF VIEW_NORMAL \in mode
            THEN RMul(f1, calc_view_normal_factor(m, cache, sc, i, 0))
            ELSE f0
  IN  [automasking_factor |-> [i \in Verts(m) |-> f(i)],
       automasking_cavity |-> attrs.automasking_cavity,
       automasking_occlusion |->
         IF both
         THEN [i \in Verts(m) |-> occ(i).attrs.automasking_occlusion[i]]
         ELSE attrs.automasking_occlusion,
       automasking_stroke_id |->
         IF attrs.automasking_stroke_id # NoAttr
         THEN [i \in Verts(m) |-> stroke_id]
         ELSE attrs.automasking_stroke_id]

\* as cache_init, with the face set calculator run before the topology flood
cache_init_face_sets_first(m, s, sc, attrs, sd, brush, paint_brush) ==
  IF ~is_enabled(sd, brush, stroke_is_dyntopo(m, brush))
  THEN [value |-> NoCache, ss |-> s, attrs |-> attrs, log |-> <<>>]
  ELSE
  LET mode == calc_effective_bits(sd, brush)
      settings0 == cache_settings_update(sd, brush, s.active_face_set)
      settings1 == IF TOPOLOGY \in mode /\ s.active_vert # -1
                   THEN [settings0 EXCEPT !.initial_island_nr = vert_id_get(m, s.active_vert)]
                   ELSE settings0
      have_occlusion == VIEW_OCCLUSION \in mode /\ VIEW_NORMAL \in mode
      use_stroke_id == have_occlusion \/ Has(mode, CAVITY_ALL)
      attrs1 == [attrs EXCEPT
                   !.automasking_occlusion =
                     IF have_occlusion THEN BKE_sculpt_attribute_ensure(m, @, 0) ELSE @,
                   !.automasking_cavity =
                     IF Has(mode, CAVITY_ALL)
                     THEN BKE_sculpt_attribute_ensure(m, @, RZero) ELSE @,
                   \* SCULPT_stroke_id_ensure
                   !.automasking_stroke_id =
                     IF use_stroke_id THEN BKE_sculpt_attribute_ensure(m, @, 0) ELSE @]
      can_reuse_mask ==
        /\ use_stroke_id
        /\ brush # NoBrush
        /\ brush_type_can_reuse_automask(brush.type)
        /\ ~have_occlusion
        /\ settings_hash(m, settings1) = s.last_automasking_settings_hash
      cache1 == [settings |-> settings1,
                 current_stroke_id |-> IF can_reuse_mask THEN s.last_automask_stroke_id
                                       ELSE s.stroke_id,
                 can_reuse_mask |-> can_reuse_mask]
      s1 == IF use_stroke_id /\ ~can_reuse_mask
            THEN [s EXCEPT !.last_automask_stroke_id = s.stroke_id]
            ELSE s
  IN
  IF ~needs_factors_cache(sd, brush)
  THEN [value |-> cache1, ss |-> s1,
        \* BKE_sculpt_attribute_destroy(&ob, ss.attrs.automasking_factor)
        attrs |-> [attrs1 EXCEPT !.automasking_factor = NoAttr],
        log |-> <<>>]
  ELSE
  LET normal_bits == calc_effective_bits(sd, brush) \cap {VIEW_NORMAL, VIEW_OCCLUSION}
      initial_value == IF TOPOLOGY \notin mode THEN ROne ELSE RZero
      do_topology == mode_enabled(sd, brush, {TOPOLOGY})
      do_face_sets == mode_enabled(sd, brush, {FACE_SETS})
      do_edges == mode_enabled(sd, brush, {BOUNDARY_EDGES})
      do_fsets == mode_enabled(sd, brush, {BOUNDARY_FACE_SETS})
      steps == boundary_propagation_steps(sd, brush)
      \* the additive modes, each on the buffer f the one before left
      topology(f) ==
        IF do_topology
        THEN fill_topology_automasking_factors(m, f, sc.kind = "stroke", sc.radius,
                                               paint_brush, s.active_vert)
        ELSE f
      face_sets(f) ==
        IF do_face_sets
        THEN init_face_sets_masking(
               m, f, is_enabled(sd, paint_brush, stroke_is_dyntopo(m, paint_brush)),
               s.active_face_set)
        ELSE f
      edges(f) == IF do_edges THEN init_boundary_masking(m, f, "Edges", steps) ELSE f
      fsets(f) == IF do_fsets THEN init_boundary_masking(m, f, "FaceSets", steps) ELSE f
      \* the subtractive modes
      normals(cache, a) ==
        IF normal_bits # {}
        THEN normal_occlusion_automasking_fill(m, cache, sc, s1.stroke_id, a, normal_bits)
        ELSE a
      finish(cache) ==
        [value |-> cache, ss |-> s1,
         attrs |-> normals(cache,
                     [attrs1 EXCEPT !.automasking_factor =
                        fsets(edges(topology(face_sets(
                          [i \in Verts(m) |-> initial_value]))))]),
         log |-> <<"init">> \o (IF do_face_sets THEN <<"face_sets">> ELSE <<>>)
                   \o (IF do_topology THEN <<"topology">> ELSE <<>>)
                   \o (IF do_edges THEN <<"boundary_edges">> ELSE <<>>)
                   \o (IF do_fsets THEN <<"boundary_face_sets">> ELSE <<>>)
                   \o (IF normal_bits # {} THEN <<"normal_occlusion">> ELSE <<>>)]
  IN  finish(IF do_topology
             THEN [cache1 EXCEPT !.settings.topology_use_brush_limit =
                                    is_constrained_by_radius(brush)]
             ELSE cache1)

\* cache_init without the destruction of the factor buffer it finds when no
\* precompute is needed
cache_init_keep_factor(m, s, sc, attrs, sd, brush, paint_brush) ==
  IF ~is_enabled(sd, brush, stroke_is_dyntopo(m, brush))
  THEN [value |-> NoCache, ss |-> s, attrs |-> attrs, log |-> <<>>]
  ELSE
  LET mode == calc_effective_bits(sd, brush)
      settings0 == cache_settings_update(sd, brush, s.active_face_set)
      settings1 == IF TOPOLOGY \in mode /\ s.active_vert # -1
                   THEN [settings0 EXCEPT !.initial_island_nr = vert_id_get(m, s.active_vert)]
                   ELSE settings0
      have_occlusion == VIEW_OCCLUSION \in mode /\ VIEW_NORMAL \in mode
      use_stroke_id == have_occlusion \/ Has(mode, CAVITY_ALL)
      attrs1 == [attrs EXCEPT
                   !.automasking_occlusion =
                     IF have_occlusion THEN BKE_sculpt_attribute_ensure(m, @, 0) ELSE @,
                   !.automasking_cavity =
                     IF Has(mode, CAVITY_ALL)
                     THEN BKE_sculpt_attribute_ensure(m, @, RZero) ELSE @,
                   \* SCULPT_stroke_id_ensure
                   !.automasking_stroke_id =
                     IF use_stroke_id THEN BKE_sculpt_attribute_ensure(m, @, 0) ELSE @]
      can_reuse_mask ==
        /\ use_stroke_id
        /\ brush # NoBrush
        /\ brush_type_can_reuse_automask(brush.type)
        /\ ~have_occlusion
        /\ settings_hash(m, settings1) = s.last_automasking_settings_hash
      cache1 == [settings |-> settings1,
                 current_stroke_id |-> IF can_reuse_mask THEN s.last_automask_stroke_id
                                       ELSE s.stroke_id,
                 can_reuse_mask |-> can_reuse_mask]
      s1 == IF use_stroke_id /\ ~can_reuse_mask
            THEN [s EXCEPT !.last_automask_stroke_id = s.stroke_id]
            ELSE s
  IN
  IF ~needs_factors_cache(sd, brush)
  THEN [value |-> cache1, ss |-> s1,
        attrs |-> attrs1,
        log |-> <<>>]
  ELSE
  LET normal_bits == calc_effective_bits(sd, brush) \cap {VIEW_NORMAL, VIEW_OCCLUSION}
      initial_value == IF TOPOLOGY \notin mode THEN ROne ELSE RZero
      do_topology == mode_enabled(sd, brush, {TOPOLOGY})
      do_face_sets == mode_enabled(sd, brush, {FACE_SETS})
      do_edges == mode_enabled(sd, brush, {BOUNDARY_EDGES})
      do_fsets == mode_enabled(sd, brush, {BOUNDARY_FACE_SETS})
      steps == boundary_propagation_steps(sd, brush)
      \* the additive modes, each on the buffer f the one before left
      topology(f) ==
        IF do_topology
        THEN fill_topology_automasking_factors(m, f, sc.kind = "stroke", sc.radius,
                                               paint_brush, s.active_vert)
        ELSE f
      face_sets(f) ==
        IF do_face_sets
        THEN init_face_sets_masking(
               m, f, is_enabled(sd, paint_brush, stroke_is_dyntopo(m, paint_brush)),
               s.active_face_set)
        ELSE f
      edges(f) == IF do_edges THEN init_boundary_masking(m, f, "Edges", steps) ELSE f
      fsets(f) == IF do_fsets THEN init_boundary_masking(m, f, "FaceSets", steps) ELSE f
      \* the subtractive modes
      normals(cache, a) ==
        IF normal_bits # {}
        THEN normal_occlusion_automasking_fill(m, cache, sc, s1.stroke_id, a, normal_bits)
        ELSE a
      finish(cache) ==
        [value |-> cache, ss |-> s1,
         attrs |-> normals(cache,
                     [attrs1 EXCEPT !.automasking_factor =
                        fsets(edges(face_sets(topology(
                          [i \in Verts(m) |-> initial_value]))))]),
         log |-> <<"init">> \o (IF do_topology THEN <<"topology">> ELSE <<>>)
                   \o (IF do_face_sets THEN <<"face_sets">> ELSE <<>>)
                   \o (IF do_edges THEN <<"boundary_edges">> ELSE <<>>)
                   \o (IF do_fsets THEN <<"boundary_face_sets">> ELSE <<>>)
                   \o (IF normal_bits # {} THEN <<"normal_occlusion">> ELSE <<>>)]
  IN  finish(IF do_topology
             THEN [cache1 EXCEPT !.settings.topology_use_brush_limit =
                                    is_constrained_by_radius(brush)]
             ELSE cache1)

\* cache_init(depsgraph, sd, brush, ob): the cache returned, the session
\* scalars and attributes after the call, and the calculators run, in order.
\* s is the session, sc its stroke or filter cache, paint_brush the brush
\* BKE_paint_brush_for_read(&sd.paint) returns.
cache_init(m, s, sc, attrs, sd, brush, paint_brush) ==
  IF ~is_enabled(sd, brush, stroke_is_dyntopo(m, brush))
  THEN [value |-> NoCache, ss |-> s, attrs |-> attrs, log |-> <<>>]
  ELSE
  LET mode == calc_effective_bits(sd, brush)
      settings0 == cache_settings_update(sd, brush, s.active_face_set)
      settings1 == IF TOPOLOGY \in mode /\ s.active_vert # -1
                   THEN [settings0 EXCEPT !.initial_island_nr = vert_id_get(m, s.active_vert)]
                   ELSE settings0
      have_occlusion == VIEW_OCCLUSION \in mode /\ VIEW_NORMAL \in mode
      use_stroke_id == have_occlusion \/ Has(mode, CAVITY_ALL)
      attrs1 == [attrs EXCEPT
                   !.automasking_occlusion =
                     IF have_occlusion THEN BKE_sculpt_attribute_ensure(m, @, 0) ELSE @,
                   !.automasking_cavity =
                     IF Has(mode, CAVITY_ALL)
                     THEN BKE_sculpt_attribute_ensure(m, @, RZero) ELSE @,
                   \* SCULPT_stroke_id_ensure
                   !.automasking_stroke_id =
                     IF use_stroke_id THEN BKE_sculpt_attribute_ensure(m, @, 0) ELSE @]
      can_reuse_mask ==
        /\ use_stroke_id
        /\ brush # NoBrush
        /\ brush_type_can_reuse_automask(brush.type)
        /\ ~have_occlusion
        /\ settings_hash(m, settings1) = s.last_automasking_settings_hash
      cache1 == [settings |-> settings1,
                 current_stroke_id |-> IF can_reuse_mask THEN s.last_automask_stroke_id
                                       ELSE s.stroke_id,
                 can_reuse_mask |-> can_reuse_mask]
      s1 == IF use_stroke_id /\ ~can_reuse_mask
            THEN [s EXCEPT !.last_automask_stroke_id = s.stroke_id]
            ELSE s
  IN
  IF ~needs_factors_cache(sd, brush)
  THEN [value |-> cache1, ss |-> s1,
        \* BKE_sculpt_attribute_destroy(&ob, ss.attrs.automasking_factor)
        attrs |-> [attrs1 EXCEPT !.automasking_factor = NoAttr],
        log |-> <<>>]
  ELSE
  LET normal_bits == calc_effective_bits(sd, brush) \cap {VIEW_NORMAL, VIEW_OCCLUSION}
      initial_value == IF TOPOLOGY \notin mode THEN ROne ELSE RZero
      do_topology == mode_enabled(sd, brush, {TOPOLOGY})
      do_face_sets == mode_enabled(sd, brush, {FACE_SETS})
      do_edges == mode_enabled(sd, brush, {BOUNDARY_EDGES})
      do_fsets == mode_enabled(sd, brush, {BOUNDARY_FACE_SETS})
      steps == boundary_propagation_steps(sd, brush)
      \* the additive modes, each on the buffer f the one before left
      topology(f) ==
        IF do_topology
        THEN fill_topology_automasking_factors(m, f, sc.kind = "stroke", sc.radius,
                                               paint_brush, s.active_vert)
        ELSE f
      face_sets(f) ==
        IF do_face_sets
        THEN init_face_sets_masking(
               m, f, is_enabled(sd, paint_brush, stroke_is_dyntopo(m, paint_brush)),
               s.active_face_set)
        ELSE f
      edges(f) == IF do_edges THEN init_boundary_masking(m, f, "Edges", steps) ELSE f
      fsets(f) == IF do_fsets THEN init_boundary_masking(m, f, "FaceSets", steps) ELSE f
      \* the subtractive modes
      normals(cache, a) ==
        IF normal_bits # {}
        THEN normal_occlusion_automasking_fill(m, cache, sc, s1.stroke_id, a, normal_bits)
        ELSE a
      finish(cache) ==
        [value |-> cache, ss |-> s1,
         attrs |-> normals(cache,
                     [attrs1 EXCEPT !.automasking_factor =
                        fsets(edges(face_sets(topology(
                          [i \in Verts(m) |-> initial_value]))))]),
         log |-> <<"init">> \o (IF do_topology THEN <<"topology">> ELSE <<>>)
                   \o (IF do_face_sets THEN <<"face_sets">> ELSE <<>>)
                   \o (IF do_edges THEN <<"boundary_edges">> ELSE <<>>)
                   \o (IF do_fsets THEN <<"boundary_face_sets">> ELSE <<>>)
                   \o (IF normal_bits # {} THEN <<"normal_occlusion">> ELSE <<>>)]
  IN  finish(IF do_topology
             THEN [cache1 EXCEPT !.settings.topology_use_brush_limit =
                                    is_constrained_by_radius(brush)]
             ELSE cache1)

-----------------------------------------------------------------------------
(* Tool settings and brushes *)

\* Sculpt: the tool-level automasking settings
Sculpt(flags, steps) ==
  [automasking_flags |-> flags, propagation_steps |-> steps,
   view_normal_limit |-> 0, view_normal_falloff |-> 2,
   start_normal_limit |-> 1, start_normal_falloff |-> 2,
   cavity_factor |-> <<1, 64>>, cavity_blur_steps |-> 0, cavity_curve |-> "LINEAR"]

\* Brush: type, falloff shape, whether strokes with it are dynamic-topology
\* strokes on a BMesh, and the brush-level automasking settings
Brush(type, falloff_shape, dyntopo, flags, steps) ==
  [type |-> type, falloff_shape |-> falloff_shape, dyntopo |-> dyntopo,
   automasking_flags |-> flags, propagation_steps |-> steps,
   view_normal_limit |-> 2, view_normal_falloff |-> 2,
   start_normal_limit |-> 1, start_normal_falloff |-> 1,
   cavity_factor |-> <<1, 32>>, cavity_blur_steps |-> 1, cavity_curve |-> "SQUARE"]

-----------------------------------------------------------------------------
(* The stroke life cycle *)

NoAttrs ==
  [automasking_factor |-> NoAttr, automasking_cavity |-> NoAttr,
   automasking_occlusion |-> NoAttr, automasking_stroke_id |-> NoAttr]

NoRet == [op |-> "none", value |-> ROne, path |-> "", log |-> <<>>, queries |-> 0]

NoCall == [fn |-> "none"]

NoHist == [automasking |-> NoCache, brush |-> NoBrush, log |-> <<>>]

\* the sculpt session right after sculpt mode is entered
NewSession ==
  [stroke_id |-> 0, last_automask_stroke_id |-> 0,
   last_automasking_settings_hash |-> <<>>,
   active_vert |-> 0, active_face_set |-> 1]

\* the session right after sculpt mode is entered on mesh i
SessionInit(i) ==
  /\ mesh = i
  /\ ss = NewSession
  /\ ss_cache = NoStroke
  /\ ss_attrs = NoAttrs
  /\ automasking = NoCache
  /\ pc = "idle"
  /\ ret = NoRet
  /\ hist = NoHist
  /\ call = NoCall

UCHAR_RANGE == 256

\* SCULPT_stroke_id_next
SCULPT_stroke_id_next(stroke_id) == (stroke_id + 1) % UCHAR_RANGE

\* A brush stroke starts: the stroke id advances, the stroke cache is set up
\* for the brush, and the vertex and face set under the cursor become active
StrokeBegin(brush, radius, active_vert, active_face_set, dir) ==
  /\ pc = "idle"
  /\ ss' = [ss EXCEPT !.stroke_id = SCULPT_stroke_id_next(@),
                      !.active_vert = active_vert,
                      !.active_face_set = active_face_set]
  /\ ss_cache' = [kind |-> "stroke", brush |-> brush, paint_brush |-> brush,
                  radius |-> radius, initial_normal |-> dir, view_normal |-> dir,
                  paint_face_set |-> active_face_set]
  /\ pc' = "begun"
  /\ UNCHANGED <<mesh, ss_attrs, automasking, ret, hist, call>>

\* A mesh filter starts: the same with a filter cache, which has no brush
\* and no radius
FilterBegin(paint_brush, active_vert, active_face_set, dir) ==
  /\ pc = "idle"
  /\ ss' = [ss EXCEPT !.stroke_id = SCULPT_stroke_id_next(@),
                      !.active_vert = active_vert,
                      !.active_face_set = active_face_set]
  /\ ss_cache' = [kind |-> "filter", brush |-> NoBrush, paint_brush |-> paint_brush,
                  radius |-> 0, initial_normal |-> dir, view_normal |-> dir,
                  paint_face_set |-> active_face_set]
  /\ pc' = "begun"
  /\ UNCHANGED <<mesh, ss_attrs, automasking, ret, hist, call>>

\* cache_init(depsgraph, sd, brush, ob), called as the stroke or filter starts
CacheInit(sd) ==
  /\ pc = "begun"
  /\ LET returned(r) ==
           /\ automasking' = r.value
           /\ ss' = r.ss
           /\ ss_attrs' = r.attrs
           /\ ret' = [NoRet EXCEPT !.op = "cache_init", !.log = r.log]
     IN  returned(cache_init(Meshes[mesh], ss, ss_cache, ss_attrs, sd,
                             ss_cache.brush, ss_cache.paint_brush))
  /\ call' = [fn |-> "cache_init", sd |-> sd]
  /\ pc' = "ready"
  /\ UNCHANGED <<mesh, ss_cache, hist>>

\* the original normal calc_vert_factors passes for a vertex: none (0) unless
\* a normal mode is on
OrigNormal(m, cache, vert) ==
  IF Has(cache.settings.flags, {BRUSH_NORMAL, VIEW_NORMAL}) THEN No(m, vert) ELSE 0

\* factor_get for one vertex, during the stroke
FactorGet(vert, budget) ==
  /\ pc = "ready"
  /\ automasking # NoCache
  /\ ret.queries < budget
  /\ LET returned(r) ==
           /\ ss_attrs' = r.attrs
           /\ ret' = [ret EXCEPT !.op = "factor_get", !.value = r.value,
                                 !.path = r.path, !.queries = @ + 1]
     IN  returned(factor_get(Meshes[mesh], automasking, ss_cache, ss_attrs, vert,
                             OrigNormal(Meshes[mesh], automasking, vert)))
  /\ call' = [fn |-> "factor_get", vert |-> vert,
               orig_normal |-> OrigNormal(Meshes[mesh], automasking, vert)]
  /\ UNCHANGED <<mesh, ss, ss_cache, automasking, pc, hist>>

\* The stroke ends: the settings hash of a reusable brush' cache is kept,
\* the stroke-only attributes are destroyed and the caches freed
StrokeDone ==
  /\ pc = "ready"
  /\ ss' = IF automasking # NoCache /\ brush_type_can_reuse_automask(ss_cache.brush.type)
           THEN [ss EXCEPT !.last_automasking_settings_hash =
                             settings_hash(Meshes[mesh], automasking.settings)]
           ELSE ss
  /\ ss_attrs' = [ss_attrs EXCEPT !.automasking_factor = NoAttr]
  /\ hist' = [automasking |-> automasking, brush |-> ss_cache.brush, log |-> ret.log]
  /\ ss_cache' = NoStroke
  /\ automasking' = NoCache
  /\ pc' = "idle"
  /\ ret' = [NoRet EXCEPT !.op = "stroke_done"]
  /\ UNCHANGED <<mesh, call>>

-----------------------------------------------------------------------------
(* The cache controller over consecutive strokes *)

MaxStrokes == 2
MaxQueries == 1
MaxSteps == 2

\* the tool settings a user can have set: automasking flags from F and a
\* number of boundary propagation steps
SculptSettings(F) == {Sculpt(flags, steps) : flags \in F, steps \in 1..MaxSteps}

GrabBrush == Brush("GRAB", "SPHERE", FALSE, {}, 1)
PaintBrush == Brush("PAINT", "SPHERE", FALSE, {}, 1)
MaskBrush == Brush("MASK", "TUBE", FALSE, {CAVITY_INVERTED}, 2)
DyntopoBrush == Brush("DRAW", "SPHERE", TRUE, {FACE_SETS}, 1)

StrokeBrushes == {GrabBrush, PaintBrush, MaskBrush, DyntopoBrush}

\* the tool-level flag words the user switches between
StrokeFlags ==
  {{}, {CAVITY_USE_CURVE}, {TOPOLOGY}, {CAVITY_NORMAL}, {CAVITY_NORMAL, BOUNDARY_EDGES},
   {VIEW_NORMAL, VIEW_OCCLUSION}, {VIEW_NORMAL, VIEW_OCCLUSION, CAVITY_NORMAL}}

BrushRadius == 2

Init == SessionInit(2)

BeginStroke ==
  /\ ss.stroke_id < MaxStrokes
  /\ \E brush \in StrokeBrushes, active_vert \in {0, 2} :
       StrokeBegin(brush, BrushRadius, active_vert, 1, 1)

BeginFilter ==
  /\ ss.stroke_id < MaxStrokes
  /\ FilterBegin(PaintBrush, 0, 1, 1)

InitCache == \E sd \in SculptSettings(StrokeFlags) : CacheInit(sd)

Query == \E vert \in Verts(Meshes[mesh]) : FactorGet(vert, MaxQueries)

Next == BeginStroke \/ BeginFilter \/ InitCache \/ Query \/ StrokeDone

Spec == Init /\ [][Next]_vars

-----------------------------------------------------------------------------
(* Properties of cache_init *)

\* the flags of a brush pointer that may be null
BrushFlags(brush) == IF brush = NoBrush THEN {} ELSE brush.automasking_flags

ModeFlags ==
  {TOPOLOGY, FACE_SETS, BOUNDARY_EDGES, BOUNDARY_FACE_SETS, BRUSH_NORMAL, VIEW_NORMAL,
   CAVITY_NORMAL, CAVITY_INVERTED}

ReuseTypes == {"PAINT", "SMEAR", "MASK", "DRAW_FACE_SETS"}

\* the state is the one cache_init returned in
AfterCacheInit == pc = "ready" /\ ret.op = "cache_init" /\ call.fn = "cache_init"

\* C2: a cache_init with no mode enabled in the tool or brush flags returns
\* no cache and leaves the session, its attributes and its stroke cache as
\* they were; a cache_init with a mode enabled, for a stroke that is not a
\* dynamic-topology stroke, returns a cache.
C2_NoModeNoCache ==
  [][(pc = "begun" /\ pc' = "ready") =>
       LET flags == call'.sd.automasking_flags \cup BrushFlags(ss_cache.brush)
           dyntopo == Meshes[mesh].pbvh = "BMesh" /\ ss_cache.brush.dyntopo
       IN  /\ flags \cap ModeFlags = {} =>
                /\ automasking' = NoCache
                /\ ss' = ss /\ ss_attrs' = ss_attrs /\ ss_cache' = ss_cache
           /\ (flags \cap ModeFlags # {} /\ ~dyntopo) => automasking' # NoCache]_vars

\* a cache_init that returned no cache although a flag that is no mode was set
C2_Witness ==
  /\ AfterCacheInit
  /\ automasking = NoCache
  /\ call.sd.automasking_flags = {CAVITY_USE_CURVE}
  /\ ss_cache.brush = PaintBrush

\* stroke-id stamping is in use for the cache's flags
UseStrokeId(flags) ==
  Has(flags, CAVITY_ALL) \/ {VIEW_OCCLUSION, VIEW_NORMAL} \subseteq flags

\* the second of two consecutive strokes with the same allow-listed brush
\* type whose settings hash equals the session's last hash, without the
\* occlusion and view normal combination
SameSettingsAgain ==
  /\ AfterCacheInit
  /\ automasking # NoCache
  /\ hist.automasking # NoCache
  /\ ss_cache.kind = "stroke"
  /\ ss_cache.brush.type \in ReuseTypes
  /\ hist.brush.type = ss_cache.brush.type
  /\ settings_hash(Meshes[mesh], automasking.settings) = ss.last_automasking_settings_hash
  /\ ~({VIEW_OCCLUSION, VIEW_NORMAL} \subseteq automasking.settings.flags)

C4_ReuseOnlyIf ==
  (AfterCacheInit /\ automasking # NoCache) =>
    LET flags == automasking.settings.flags
    IN  /\ automasking.can_reuse_mask =>
             /\ ss_cache.brush # NoBrush
             /\ ss_cache.brush.type \in ReuseTypes
             /\ ~({VIEW_OCCLUSION, VIEW_NORMAL} \subseteq flags)
             /\ settings_hash(Meshes[mesh], automasking.settings) =
                  ss.last_automasking_settings_hash
        /\ ~automasking.can_reuse_mask =>
             /\ automasking.current_stroke_id = ss.stroke_id
             /\ UseStrokeId(flags) => ss.last_automask_stroke_id = ss.stroke_id

\* a grab stroke with cavity masking after a paint stroke with the same
\* settings: the hash matches, the brush type forbids the reuse
C4_Witness ==
  /\ AfterCacheInit
  /\ automasking # NoCache
  /\ ss_cache.brush.type = "GRAB"
  /\ Has(automasking.settings.flags, CAVITY_ALL)
  /\ settings_hash(Meshes[mesh], automasking.settings) = ss.last_automasking_settings_hash
  /\ ~automasking.can_reuse_mask
  /\ ss.last_automask_stroke_id = 2

-----------------------------------------------------------------------------
(* One stroke or filter under every flag word, and its factor queries *)

DrawFaceSetsBrush == Brush("DRAW_FACE_SETS", "SPHERE", FALSE, {}, 2)

FactorBrushes == {GrabBrush, DrawFaceSetsBrush}

FactorInit == SessionInit(1)

FactorBegin ==
  /\ ss.stroke_id = 0
  /\ \/ \E brush \in FactorBrushes : StrokeBegin(brush, BrushRadius, 0, 1, 1)
     \/ FilterBegin(GrabBrush, 0, 1, 1)

FactorCacheInit ==
  \E sd \in SculptSettings(SUBSET AllFlags) : CacheInit(sd)

FactorNext == FactorBegin \/ FactorCacheInit \/ Query

SpecFactor == FactorInit /\ [][FactorNext]_vars

\* the state is the one a factor query returned in
AfterFactorGet == pc = "ready" /\ ret.op = "factor_get" /\ call.fn = "factor_get"

\* C1: every factor query returns a value in [0, 1], from the buffer or live.
C1_FactorInUnit == AfterFactorGet => InUnit(ret.value)

\* C8: a query that reads the precomputed buffer returns the brush normal
\* factor of the vertex times the buffer value times the cavity factor the
\* vertex' cache entry gives, a mode that is off contributing 1; the products
\* are float products, taken buffer times cavity first.
C8_BufferProduct ==
  (AfterFactorGet /\ ss_attrs.automasking_factor # NoAttr) =>
    LET m == Meshes[mesh]
        settings == automasking.settings
        brushNormal ==
          IF BRUSH_NORMAL \in settings.flags
          THEN normal_calc(
                 2 * AngleTo(ss_cache.initial_normal, NormalOf(m, call.vert, call.orig_normal)),
                 2 * settings.start_normal_limit - settings.start_normal_falloff,
                 2 * settings.start_normal_limit + settings.start_normal_falloff)
          ELSE ROne
        cavity ==
          IF Has(settings.flags, CAVITY_ALL)
          THEN calc_cavity_factor_vert(m, automasking, ss_attrs, call.vert).value
          ELSE ROne
    IN  ret.value = RMul(RMul(ss_attrs.automasking_factor[call.vert], cavity), brushNormal)

\* a buffer query in which all three factors are strictly between 0 and 1
C8_Witness ==
  /\ AfterFactorGet
  /\ ret.path = "buffer"
  /\ {BRUSH_NORMAL, BOUNDARY_EDGES, CAVITY_NORMAL} \subseteq automasking.settings.flags
  /\ call.vert = 1
  /\ RLt(RZero, ss_attrs.automasking_factor[1]) /\ RLt(ss_attrs.automasking_factor[1], ROne)
  /\ RLt(RZero, ss_attrs.automasking_cavity[1]) /\ RLt(ss_attrs.automasking_cavity[1], ROne)
  /\ RLt(RZero, ret.value)
  /\ RLt(ret.value, ss_attrs.automasking_factor[1])

\* the stamp of the queried vertex is the cache's stroke id
Stamped ==
  ss_attrs.automasking_stroke_id # NoAttr =>
    ss_attrs.automasking_stroke_id[call.vert] = automasking.current_stroke_id

-----------------------------------------------------------------------------
(* The topology flood at the start of a stroke or filter *)

MaxRadius == 4

TubeGrabBrush == Brush("GRAB", "TUBE", FALSE, {}, 1)

TopologyBrushes == {GrabBrush, TubeGrabBrush, PaintBrush}

TopologyFlags ==
  {{TOPOLOGY}, {TOPOLOGY, BOUNDARY_EDGES}, {TOPOLOGY, FACE_SETS},
   {BOUNDARY_EDGES}, {FACE_SETS, BOUNDARY_FACE_SETS}}

TopologyInit == \E i \in DOMAIN Meshes : SessionInit(i)

TopologyBegin ==
  /\ ss.stroke_id = 0
  /\ \E active_vert \in Verts(Meshes[mesh]) :
       \/ \E brush \in TopologyBrushes, radius \in 1..MaxRadius :
            StrokeBegin(brush, radius, active_vert, 1, 1)
       \/ FilterBegin(PaintBrush, active_vert, 1, 1)

TopologyCacheInit ==
  \E sd \in SculptSettings(TopologyFlags) : CacheInit(sd)

TopologyNext == TopologyBegin \/ TopologyCacheInit \/ Query

SpecTopology == TopologyInit /\ [][TopologyNext]_vars

\* v lies within the stroke's brush radius of the active vertex, under symmetry
InsideFloodRadius(v) ==
  LET m == Meshes[mesh]
  IN  SCULPT_is_vertex_inside_brush_radius_symm(Co(m, v), Co(m, ss.active_vert),
                                                ss_cache.radius, m.symm)

\* C5: after a precompute with topology as its only mode the active vertex
\* has factor 1 and every vertex outside the flood radius has factor 0.
C5_SeedOneOutsideZero ==
  (AfterCacheInit /\ ret.log = <<"init", "topology">>) =>
    /\ ss_attrs.automasking_factor[ss.active_vert] = ROne
    /\ \A v \in Verts(Meshes[mesh]) :
         ~InsideFloodRadius(v) => ss_attrs.automasking_factor[v] = RZero

Connected(m) == \A v \in Verts(m) : vert_id_get(m, v) = 0

\* the flood is not bounded by a radius: a filter floods with FLT_MAX, and a
\* stroke's radius may reach every vertex
UnboundedRadius ==
  ss_cache.kind = "filter" \/ \A v \in Verts(Meshes[mesh]) : InsideFloodRadius(v)

LogHas(name) == name \in {ret.log[i] : i \in DOMAIN ret.log}

\* what the face set and boundary calculators that ran make of a buffer of
\* ones
SubtractedFromOne ==
  LET m == Meshes[mesh]
      steps == boundary_propagation_steps(call.sd, ss_cache.brush)
      f0 == [v \in Verts(m) |-> ROne]
      f1 == IF LogHas("face_sets")
            THEN init_face_sets_masking(m, f0, TRUE, ss.active_face_set) ELSE f0
      f2 == IF LogHas("boundary_edges")
            THEN init_boundary_masking(m, f1, "Edges", steps) ELSE f1
  IN  IF LogHas("boundary_face_sets")
      THEN init_boundary_masking(m, f2, "FaceSets", steps) ELSE f2

\* C6: on a connected mesh the topology flood with an unbounded radius
\* leaves factor 1 at every vertex, and without topology mode the buffer
\* starts at 1: in both cases the buffer is what the subtractive modes make
\* of a buffer of ones, so a vertex none of them touches has factor 1.
C6_FloodLeavesOnes ==
  (/\ AfterCacheInit
   /\ ss_attrs.automasking_factor # NoAttr
   /\ ~LogHas("normal_occlusion")
   /\ \/ TOPOLOGY \notin automasking.settings.flags
      \/ LogHas("topology") /\ Connected(Meshes[mesh]) /\ UnboundedRadius) =>
    ss_attrs.automasking_factor = SubtractedFromOne

\* a filter on the line mesh whose flood from one end reached the other end
C6_Witness ==
  /\ AfterCacheInit
  /\ mesh = 3
  /\ ss_cache.kind = "filter"
  /\ ss.active_vert = 0
  /\ ret.log = <<"init", "topology", "boundary_edges">>
  /\ ss_attrs.automasking_factor[2] = Rat(3, 4)
  /\ ss_attrs.automasking_factor[3] = RZero

-----------------------------------------------------------------------------
(* The boundary precompute on its own: init_boundary_masking applied to    *)
(* every graph on BoundaryVerts vertices, every set of boundary vertices,  *)
(* both modes and every step count up to MaxBoundarySteps.  The mesh is an *)
(* argument of the call here, and mesh is 0.                               *)

BoundaryVerts == 4

MaxBoundarySteps == 3

\* the graph with the given edges whose boundary vertices are B and whose
\* vertices on a face set border are F
BoundaryMesh(edges, B, F) ==
  MkMesh("Mesh", BoundaryVerts, edges,
         [i \in 1 .. BoundaryVerts |-> <<i - 1, 0>>],
         [i \in 1 .. BoundaryVerts |-> 1], B,
         [i \in 1 .. BoundaryVerts |-> IF (i - 1) \in F THEN {1, 2} ELSE {1}],
         {}, 0)

VertPairs(n) == {{u, v} : u \in 0 .. (n - 1), v \in 0 .. (n - 1)} \ {{v} : v \in 0 .. (n - 1)}

\* the factor buffers the precompute may find: all ones as cache_init
\* leaves it, or what an earlier calculator left
PriorFactors ==
  {[v \in 0 .. (BoundaryVerts - 1) |-> ROne],
   [v \in 0 .. (BoundaryVerts - 1) |-> IF v % 2 = 0 THEN Rat(3, 4) ELSE RHalf]}

BoundaryInit ==
  /\ mesh = 0
  /\ ss = NewSession
  /\ ss_cache = NoStroke
  /\ automasking = NoCache
  /\ pc = "called"
  /\ ret = NoRet
  /\ hist = NoHist
  /\ \E edges \in SUBSET VertPairs(BoundaryVerts),
        B \in SUBSET (0 .. (BoundaryVerts - 1)),
        F \in {{}, {BoundaryVerts - 1}},
        mode \in {"Edges", "FaceSets"},
        propagation_steps \in 1 .. MaxBoundarySteps,
        factor \in PriorFactors :
       /\ ss_attrs = [NoAttrs EXCEPT !.automasking_factor = factor]
       /\ call = [fn |-> "init_boundary_masking", m |-> BoundaryMesh(edges, B, F),
                  mode |-> mode, propagation_steps |-> propagation_steps,
                  factor |-> factor]

\* init_boundary_masking(ob, mode, propagation_steps) runs
BoundaryMasking ==
  /\ pc = "called"
  /\ call.fn = "init_boundary_masking"
  /\ ss_attrs' = [ss_attrs EXCEPT !.automasking_factor =
                    init_boundary_masking(call.m, @, call.mode, call.propagation_steps)]
  /\ ret' = [op |-> "init_boundary_masking",
             edge_distance |-> BoundaryEdgeDistance(call.m, call.mode,
                                                    call.propagation_steps)]
  /\ pc' = "returned"
  /\ UNCHANGED <<mesh, ss, ss_cache, automasking, hist, call>>

BoundaryNext == BoundaryMasking

SpecBoundary == BoundaryInit /\ [][BoundaryNext]_vars

\* the boundary elements of a call's mode
BoundaryElements(m, mode) ==
  {v \in Verts(m) : \/ mode = "Edges" /\ v \in m.boundary
                    \/ mode = "FaceSets" /\ Cardinality(m.face_sets[v + 1]) > 1}

\* the number of edges on a shortest path from v to the set S, -1 when there
\* is no path; d is the number of steps S has grown by
RECURSIVE Hops(_, _, _, _)
Hops(m, S, v, d) ==
  IF v \in S THEN d
  ELSE LET T == S \cup UNION {Neighbors(m, u) : u \in S}
       IN  IF T = S THEN -1 ELSE Hops(m, T, v, d + 1)

AfterBoundaryMasking == pc = "returned" /\ ret.op = "init_boundary_masking"

\* C7: the boundary precompute with N steps gives each vertex its hop
\* distance to the nearest boundary element when that is at most N and
\* "infinite" otherwise; a vertex at distance d <= N has its factor multiplied
\* by 1 - (1 - d/N)^2, which is 0 at a boundary element and leaves the factor
\* as it was at distance N; a vertex farther away keeps its factor; with
\* N = 1 the boundary elements go to 0 and every other vertex keeps its factor.
C7_BoundaryFalloff ==
  AfterBoundaryMasking =>
    LET m == call.m
        N == call.propagation_steps
    IN  \A v \in Verts(m) :
          LET d == Hops(m, BoundaryElements(m, call.mode), v, 0)
              near == d # -1 /\ d <= N
              p == RSub(ROne, RDiv(RInt(d), RInt(N)))
              after == ss_attrs.automasking_factor[v]
          IN  /\ ret.edge_distance[v] = IF near THEN d ELSE EDGE_DISTANCE_INF
              /\ near => after = RMul(call.factor[v], RSub(ROne, RMul(p, p)))
              /\ ~near => after = call.factor[v]
              /\ d = 0 => after = RZero
              /\ d = N => after = call.factor[v]
              /\ (N = 1 /\ d # 0) => after = call.factor[v]

\* a path 0-1-2-3 with its boundary at vertex 0 and two steps: distances 0,
\* 1, 2 and none; factors 0, 3/4 of the prior 1/2, the prior, the prior
C7_Witness ==
  /\ AfterBoundaryMasking
  /\ call.m.edges = {{0, 1}, {1, 2}, {2, 3}}
  /\ call.mode = "Edges" /\ call.m.boundary = {0}
  /\ call.propagation_steps = 2
  /\ call.factor[2] = Rat(3, 4)
  /\ ret.edge_distance = [v \in 0 .. 3 |-> IF v = 3 THEN EDGE_DISTANCE_INF ELSE v]
  /\ ss_attrs.automasking_factor[0] = RZero
  /\ ss_attrs.automasking_factor[1] = Rat(3, 8)
  /\ ss_attrs.automasking_factor[2] = Rat(3, 4)
  /\ ss_attrs.automasking_factor[3] = RHalf

-----------------------------------------------------------------------------
(* The cavity calculation on its own: calc_blurred_cavity applied to a     *)
(* vertex of every graph on CavityVerts vertices that lie on a line of     *)
(* constant height with one normal (a flat patch), or with the vertex      *)
(* raised by one (a bump).  The mesh is an argument of the call here, and  *)
(* mesh is 0.                                                              *)

CavityVerts == 4

MaxBlurSteps == 1

\* the heights of the patches
PatchHeights == {0, 1, 11, 43}

\* the patch at the given height whose normals all are no, with the vertex
\* raised by bump
PatchMesh(edges, height, no, vertex, bump) ==
  MkMesh("Mesh", CavityVerts, edges,
         [i \in 1 .. CavityVerts |->
            <<i - 1, IF i - 1 = vertex THEN height + bump ELSE height>>],
         [i \in 1 .. CavityVerts |-> no], {},
         [i \in 1 .. CavityVerts |-> {1}], {}, 0)

CavityInit ==
  /\ mesh = 0
  /\ ss = NewSession
  /\ ss_cache = NoStroke
  /\ automasking = NoCache
  /\ pc = "called"
  /\ ret = NoRet
  /\ hist = NoHist
  /\ ss_attrs = [NoAttrs EXCEPT !.automasking_cavity = [v \in 0 .. (CavityVerts - 1) |-> RZero]]
  /\ \E edges \in SUBSET VertPairs(CavityVerts),
        height \in PatchHeights,
        no \in {1, -1},
        vertex \in 0 .. (CavityVerts - 1),
        bump \in {0, 1},
        blur_steps \in 0 .. MaxBlurSteps,
        inverted \in BOOLEAN :
       call = [fn |-> "calc_blurred_cavity",
               m |-> PatchMesh(edges, height, no, vertex, bump),
               settings |-> [flags |-> IF inverted THEN {CAVITY_INVERTED} ELSE {CAVITY_NORMAL},
                             cavity_factor |-> ROne],
               blur_steps |-> blur_steps, vertex |-> vertex]

\* calc_blurred_cavity(depsgraph, object, automasking, steps, vertex) runs
BlurredCavity ==
  /\ pc = "called"
  /\ call.fn = "calc_blurred_cavity"
  /\ ss_attrs' = [ss_attrs EXCEPT !.automasking_cavity[call.vertex] =
                    calc_blurred_cavity(call.m, call.settings, call.blur_steps,
                                        call.vertex)]
  /\ ret' = [op |-> "calc_blurred_cavity"]
  /\ pc' = "returned"
  /\ UNCHANGED <<mesh, ss, ss_cache, automasking, hist, call>>

CavityNext == BlurredCavity

SpecCavity == CavityInit /\ [][CavityNext]_vars

AfterBlurredCavity == pc = "returned" /\ ret.op = "calc_blurred_cavity"

\* the vertices within the given number of hops of S
RECURSIVE Within(_, _, _)
Within(m, S, hops) ==
  IF hops = 0 THEN S
  ELSE Within(m, S \cup UNION {Neighbors(m, u) : u \in S}, hops - 1)

\* the vertices calc_blurred_cavity gathers lie in one plane and have one
\* normal
FlatPatch(m, vertex, blur_steps) ==
  \A u, v \in Within(m, {vertex}, blur_steps + 1) :
    Co(m, u)[2] = Co(m, v)[2] /\ No(m, u) = No(m, v)

\* C10: on a flat patch the cavity factor stored, which is the factor before
\* curve remapping, is exactly 0.5, for every blur step count and with or
\* without the inverted flag.
C10_FlatIsHalf ==
  (AfterBlurredCavity /\ FlatPatch(call.m, call.vertex, call.blur_steps)) =>
    ss_attrs.automasking_cavity[call.vertex] = RHalf

-----------------------------------------------------------------------------
(* The attribute store (blenkernel/intern/paint.cc)                        *)
(*                                                                         *)
(* In the runs of the store the variables hold: mesh, the CustomData of    *)
(* the original mesh; ss, the session's backend and its temp_attributes;   *)
(* ss_attrs, the convenience pointers ss.attrs, each a slot or 0; hist,    *)
(* the build and the blocks the allocator has handed out.  A pointer to a  *)
(* slot is the slot's position in temp_attributes, a pointer to a block    *)
(* its position in the blocks, and 0 is nullptr.                           *)

SCULPT_MAX_ATTRIBUTES == 2

\* the largest element count of a domain
MaxElems == 2

\* the blocks the allocator hands out at most
MaxBlocks == 8

\* the operations of the store a run makes at most
MaxOps == 4

CD_PROP_FLOAT == "CD_PROP_FLOAT"
CD_PROP_INT32 == "CD_PROP_INT32"
CD_PROP_FLOAT3 == "CD_PROP_FLOAT3"

\* the layer types in the order of their numbers
TypeOrder == <<CD_PROP_FLOAT, CD_PROP_INT32, CD_PROP_FLOAT3>>

TypeNumber(type) == CHOOSE i \in 1..Len(TypeOrder) : TypeOrder[i] = type

\* a block of n zeroed elements
Block(n) == [elems |-> [i \in 1..n |-> 0], live |-> TRUE]

FreedBlock == [elems |-> <<>>, live |-> FALSE]

\* MEM_calloc_arrayN: the blocks with a new block of n zeroed elements
MEM_calloc_arrayN(blocks, n) == Append(blocks, Block(n))

\* MEM_SAFE_FREE of the pointer data
MEM_SAFE_FREE(blocks, data) ==
  IF data = 0 THEN blocks ELSE [blocks EXCEPT ![data] = FreedBlock]

\* a CustomData layer: data is the block of a mesh layer and 0 for a BMesh
\* layer, whose elements sit in the element blocks at the layer's offset
Layer(type, name, data) == [type |-> type, name |-> name, flag |-> {}, data |-> data]

\* CustomData_get_named_layer_index: the first layer of the type and name
\* counted from 0, -1 if there is none
CustomData_get_named_layer_index(cdata, type, name) ==
  LET found == {i \in 1..Len(cdata) : cdata[i].type = type /\ cdata[i].name = name}
      first(S) == CHOOSE i \in S : \A j \in S : i <= j
  IN  IF found = {} THEN -1 ELSE first(found) - 1

\* the position a new layer of the type goes to: layers are kept in the
\* order of their types, a new one behind the layers of its type
LayerPosition(cdata, type) ==
  Cardinality({i \in 1..Len(cdata) : TypeNumber(cdata[i].type) <= TypeNumber(type)})

InsertAt(seq, pos, e) == SubSeq(seq, 1, pos) \o <<e>> \o SubSeq(seq, pos + 1, Len(seq))

RemoveAt(seq, pos) == SubSeq(seq, 1, pos - 1) \o SubSeq(seq, pos + 1, Len(seq))

\* CustomData_add_layer_named(cdata, type, CD_SET_DEFAULT, totelem, name),
\* data being the block allocated for the layer
CustomData_add_layer_named(cdata, type, data, name) ==
  InsertAt(cdata, LayerPosition(cdata, type), Layer(type, name, data))

\* the offset of the layer at index in the element blocks of a BMesh, every
\* element having size 1
LayerOffset(cdata, index) == index

\* layers[index].flag |= flag
LayerFlag(cdata, index, flag) == [cdata EXCEPT ![index + 1].flag = @ \cup flag]

CD_FLAG_TEMPORARY == "CD_FLAG_TEMPORARY"
CD_FLAG_NOCOPY == "CD_FLAG_NOCOPY"

\* SculptAttributeParams
Params(simple_array, permanent, stroke_only) ==
  [simple_array |-> simple_array, permanent |-> permanent, stroke_only |-> stroke_only]

\* a SculptAttribute all of whose bytes are zero: the domain with number 0
\* is Point
ZeroSlot ==
  [used |-> FALSE, name |-> "", domain |-> "Point", proptype |-> "",
   params |-> Params(FALSE, FALSE, FALSE), simple_array |-> FALSE,
   data_for_bmesh |-> FALSE, data |-> 0, elem_num |-> 0, bmesh_cd_offset |-> 0]

NoBM == [totvert |-> 0]

\* what an operation of the store works on: the session, the mesh, ss.attrs
\* and the blocks, with the assertions that did not hold and whether a null
\* pointer was written through
World(s, me, attrs, blocks) ==
  [ss |-> s, mesh |-> me, attrs |-> attrs, blocks |-> blocks, trips |-> {}, null_write |-> FALSE]

\* BLI_assert(holds) at the line
BLI_assert(w, holds, line) == IF holds THEN w ELSE [w EXCEPT !.trips = @ \cup {line}]

\* BKE_sculptsession_vertex_count
BKE_sculptsession_vertex_count(s) ==
  IF s.bm # NoBM THEN s.bm.totvert
  ELSE IF s.subdiv_ccg # 0 THEN s.subdiv_ccg
  ELSE s.totvert

SupportedDomain(domain) == domain \in {"Point", "Face"}

\* sculpt_attr_elem_count_get: the count, the assertion of the default case
\* being recorded by AssertDomain
sculpt_attr_elem_count_get(s, domain) ==
  CASE domain = "Point" -> BKE_sculptsession_vertex_count(s)
    [] domain = "Face" -> s.totfaces
    [] OTHER -> 0

\* BLI_assert_unreachable() in the default case of a switch over the domain
AssertDomain(w, domain, line) == BLI_assert(w, SupportedDomain(domain), line)

\* sculpt_get_cdata: which CustomData holds the layers of the domain, "" for
\* nullptr
sculpt_get_cdata(s, domain) ==
  IF s.bm # NoBM
  THEN CASE domain = "Point" -> "vdata"
         [] domain = "Face" -> "pdata"
         [] OTHER -> ""
  ELSE CASE domain = "Point" -> IF s.pbvh = "Grids" THEN "" ELSE "vert_data"
         [] domain = "Face" -> "face_data"
         [] OTHER -> ""

\* the layers of the CustomData cdata
Layers(w, cdata) ==
  CASE cdata = "vdata" -> w.ss.bm.vdata
    [] cdata = "pdata" -> w.ss.bm.pdata
    [] cdata = "vert_data" -> w.mesh.vert_data
    [] cdata = "face_data" -> w.mesh.face_data

WithLayers(w, cdata, layers) ==
  CASE cdata = "vdata" -> [w EXCEPT !.ss.bm.vdata = layers]
    [] cdata = "pdata" -> [w EXCEPT !.ss.bm.pdata = layers]
    [] cdata = "vert_data" -> [w EXCEPT !.mesh.vert_data = layers]
    [] cdata = "face_data" -> [w EXCEPT !.mesh.face_data = layers]

Slot(w, out) == w.ss.temp_attributes[out]

WithSlot(w, out, slot) == [w EXCEPT !.ss.temp_attributes[out] = slot]

\* sculpt_attribute_create, the simple array: a zeroed block of totelem
\* elements
create_simple_array(w, out, head, totelem) ==
  WithSlot([w EXCEPT !.blocks = MEM_calloc_arrayN(@, totelem)], out,
           [head EXCEPT !.data = Len(w.blocks) + 1,
                        !.data_for_bmesh = w.ss.bm # NoBM,
                        !.simple_array = TRUE,
                        !.bmesh_cd_offset = -1,
                        !.used = TRUE,
                        !.elem_num = totelem])

\* sculpt_attribute_create, the named layer of a BMesh: the layer is added
\* and the attribute holds its offset
create_bmesh_layer(w, out, head, cdata, permanent, totelem) ==
  LET flagged(layers, index) ==
        IF permanent THEN layers ELSE LayerFlag(layers, index, {CD_FLAG_TEMPORARY, CD_FLAG_NOCOPY})
      added(layers, index) ==
        WithSlot(WithLayers(w, cdata, flagged(layers, index)), out,
                 [head EXCEPT !.data = 0,
                              !.bmesh_cd_offset = LayerOffset(layers, index),
                              !.used = TRUE,
                              !.elem_num = totelem])
      named(layers) ==
        added(layers, CustomData_get_named_layer_index(layers, head.proptype, head.name))
  IN  named(CustomData_add_layer_named(Layers(w, cdata), head.proptype, 0, head.name))

\* sculpt_attribute_create, the named layer of the mesh: the layer is added
\* with a block of totelem elements and the attribute points to the data of
\* the first layer of its name
create_mesh_layer(w, out, head, cdata, permanent, totelem) ==
  LET flagged(layers, index) ==
        IF permanent THEN layers ELSE LayerFlag(layers, index, {CD_FLAG_TEMPORARY, CD_FLAG_NOCOPY})
      added(layers, index) ==
        WithSlot(WithLayers([w EXCEPT !.blocks = MEM_calloc_arrayN(@, totelem)],
                            cdata, flagged(layers, index)),
                 out,
                 [head EXCEPT !.data = layers[index + 1].data,
                              !.data_for_bmesh = FALSE,
                              !.bmesh_cd_offset = -1,
                              !.used = TRUE,
                              !.elem_num = totelem])
      named(layers) ==
        added(layers, CustomData_get_named_layer_index(layers, head.proptype, head.name))
  IN  named(CustomData_add_layer_named(Layers(w, cdata), head.proptype,
                                       Len(w.blocks) + 1, head.name))

\* sculpt_attribute_create, a named layer: of the BMesh if there is one, of
\* the mesh otherwise; a domain without layers leaves the slot unused
create_layer(w, out, head, permanent, totelem) ==
  LET absent(cdata, line) ==
        BLI_assert(w, CustomData_get_named_layer_index(Layers(w, cdata), head.proptype,
                                                       head.name) = -1, line)
      bmesh(cdata) ==
        IF cdata = ""
        THEN WithSlot(w, out, [head EXCEPT !.data_for_bmesh = TRUE, !.used = FALSE])
        ELSE create_bmesh_layer(absent(cdata, 2633),
                                out, [head EXCEPT !.data_for_bmesh = TRUE],
                                cdata, permanent, totelem)
      mesh_layer(cdata) ==
        IF cdata = ""
        THEN WithSlot(w, out, [head EXCEPT !.used = FALSE])
        ELSE create_mesh_layer(absent(cdata, 2662), out, head, cdata, permanent, totelem)
  IN  IF w.ss.bm # NoBM
      THEN bmesh(CASE head.domain = "Point" -> "vdata"
                   [] head.domain = "Face" -> "pdata"
                   [] OTHER -> "")
      ELSE mesh_layer(CASE head.domain = "Point" -> "vert_data"
                        [] head.domain = "Face" -> "face_data"
                        [] OTHER -> "")

\* sculpt_attribute_create(ss, ob, domain, proptype, name, out, params,
\* pbvhtype, flat_array_for_bmesh); out = 0 is a write through nullptr
sculpt_attribute_create(w, domain, proptype, name, out, params, pbvhtype, flat_array_for_bmesh) ==
  LET forced == pbvhtype = "Grids" \/ (pbvhtype = "BMesh" /\ flat_array_for_bmesh)
      head(permanent) ==
        [Slot(w, out) EXCEPT !.params = [params EXCEPT !.permanent = permanent],
                             !.proptype = proptype,
                             !.domain = domain,
                             !.name = name]
      sized(w1, simple_array, permanent, totelem) ==
        IF simple_array
        THEN create_simple_array(w1, out, head(permanent), totelem)
        ELSE create_layer(w1, out, [head(permanent) EXCEPT !.simple_array = FALSE],
                          permanent, totelem)
      counted(w1, simple_array, permanent) ==
        sized(AssertDomain(w1, domain, 2553), simple_array, permanent,
              sculpt_attr_elem_count_get(w.ss, domain))
      checked(simple_array, permanent) ==
        counted(BLI_assert(w, ~(simple_array /\ permanent), 2595), simple_array, permanent)
  IN  IF out = 0 THEN [w EXCEPT !.null_write = TRUE]
      ELSE checked(params.simple_array \/ forced, params.permanent /\ ~forced)

\* attr_is_bad finding every array stale
attr_is_bad_any_array(w, a, cdata, pbvh_type) ==
  \/ a.data # 0
  \/ a.simple_array /\ ~a.params.simple_array /\ pbvh_type \notin {"Grids", "BMesh"}
  \/ /\ cdata # ""
     /\ ~a.simple_array
     /\ \/ CustomData_get_named_layer_index(Layers(w, cdata), a.proptype, a.name) = -1
        \/ (w.ss.bm # NoBM) # a.data_for_bmesh

\* sculpt_attr_update, whether the attribute is stale: its array has another
\* length than the domain, it is a simple array that should not be one, its
\* layer is gone or it was made for the other kind of mesh
attr_is_bad(w, a, cdata, pbvh_type) ==
  \/ a.data # 0 /\ a.elem_num # sculpt_attr_elem_count_get(w.ss, a.domain)
  \/ a.simple_array /\ ~a.params.simple_array /\ pbvh_type \notin {"Grids", "BMesh"}
  \/ /\ cdata # ""
     /\ ~a.simple_array
     /\ \/ CustomData_get_named_layer_index(Layers(w, cdata), a.proptype, a.name) = -1
        \/ (w.ss.bm # NoBM) # a.data_for_bmesh

\* sculpt_attr_update(ob, attr, pbvh_type): a layer attribute that is not
\* stale gets the offset or the data of its layer again, a stale attribute
\* is created again in its slot, a simple array being freed first
sculpt_attr_update(w, attr, pbvh_type) ==
  LET refreshed(a, cdata, layer_index) ==
        IF a.data_for_bmesh
        THEN [a EXCEPT !.bmesh_cd_offset = LayerOffset(Layers(w, cdata), layer_index)]
        ELSE [a EXCEPT !.data = Layers(w, cdata)[layer_index + 1].data]
      recreated(w1, a) ==
        sculpt_attribute_create(WithSlot(w1, attr, a), a.domain, a.proptype, a.name,
                                attr, a.params, pbvh_type, a.data_for_bmesh)
      updated(w1, a, cdata) ==
        IF attr_is_bad(w1, a, cdata, pbvh_type)
        THEN IF a.simple_array
             THEN recreated([w1 EXCEPT !.blocks = MEM_SAFE_FREE(@, a.data)],
                            [a EXCEPT !.data = 0])
             ELSE recreated(w1, a)
        ELSE IF cdata # "" /\ ~a.simple_array
        THEN WithSlot(w1, attr,
                      refreshed(a, cdata,
                                CustomData_get_named_layer_index(Layers(w1, cdata),
                                                                 a.proptype, a.name)))
        ELSE w1
  IN  updated(AssertDomain(AssertDomain(w, Slot(w, attr).domain, 2553),
                           Slot(w, attr).domain, 2535),
              Slot(w, attr), sculpt_get_cdata(w.ss, Slot(w, attr).domain))

\* sculpt_attribute_update_refs(ob, pbvhtype): sculpt_attr_update for every
\* used attribute, twice; j counts the slots of both rounds
RECURSIVE update_refs_from(_, _, _)
update_refs_from(w, pbvhtype, j) ==
  LET attr == ((j - 1) % SCULPT_MAX_ATTRIBUTES) + 1
  IN  IF j > 2 * SCULPT_MAX_ATTRIBUTES THEN w
      ELSE update_refs_from(IF Slot(w, attr).used
                            THEN sculpt_attr_update(w, attr, pbvhtype)
                            ELSE w,
                            pbvhtype, j + 1)

sculpt_attribute_update_refs(w, pbvhtype) == update_refs_from(w, pbvhtype, 1)

\* sculpt_get_cached_layer: the first used attribute of the key, 0 for nullptr
sculpt_get_cached_layer(s, domain, proptype, name) ==
  LET found == {i \in 1..SCULPT_MAX_ATTRIBUTES :
                  /\ s.temp_attributes[i].used
                  /\ s.temp_attributes[i].name = name
                  /\ s.temp_attributes[i].proptype = proptype
                  /\ s.temp_attributes[i].domain = domain}
      first(S) == CHOOSE i \in S : \A j \in S : i <= j
  IN  IF found = {} THEN 0 ELSE first(found)

\* sculpt_alloc_attr, the slot it returns: the first unused one, 0 for nullptr
FirstUnused(s) ==
  LET unused == {i \in 1..SCULPT_MAX_ATTRIBUTES : ~s.temp_attributes[i].used}
      first(S) == CHOOSE i \in S : \A j \in S : i <= j
  IN  IF unused = {} THEN 0 ELSE first(unused)

\* sculpt_alloc_attr: the slot is zeroed and marked used
sculpt_alloc_attr(w) ==
  IF FirstUnused(w.ss) = 0
  THEN BLI_assert(w, FALSE, 2768)
  ELSE WithSlot(w, FirstUnused(w.ss), [ZeroSlot EXCEPT !.used = TRUE])

\* sculpt_attribute_get_ex, an attribute found in temp_attributes: if it was
\* stale and created again, all references are updated
get_cached(w, attr, pbvhtype) ==
  IF attr_is_bad(w, Slot(w, attr), sculpt_get_cdata(w.ss, Slot(w, attr).domain), pbvhtype)
  THEN sculpt_attribute_update_refs(sculpt_attr_update(w, attr, pbvhtype), pbvhtype)
  ELSE sculpt_attr_update(w, attr, pbvhtype)

\* sculpt_attribute_get_ex, a layer of the key found in the CustomData: a
\* slot is allocated that refers to the layer; without a free slot the
\* fields are written through nullptr
get_layer(w, attr, cdata, index, domain, proptype, name) ==
  IF attr = 0
  THEN [sculpt_alloc_attr(w) EXCEPT !.null_write = TRUE]
  ELSE WithSlot(sculpt_alloc_attr(w), attr,
                [ZeroSlot EXCEPT !.used = TRUE,
                                 !.domain = domain,
                                 !.proptype = proptype,
                                 !.data = Layers(w, cdata)[index + 1].data,
                                 !.bmesh_cd_offset = LayerOffset(Layers(w, cdata), index),
                                 !.elem_num = sculpt_attr_elem_count_get(w.ss, domain),
                                 !.name = name])

\* sculpt_attribute_get_ex returning what is in temp_attributes and nothing
\* else
sculpt_attribute_get_ex_find_only(w, pbvhtype, domain, proptype, name) ==
  [w |-> w, attr |-> sculpt_get_cached_layer(w.ss, domain, proptype, name)]

\* sculpt_attribute_get_ex(ob, pbvhtype, domain, proptype, name): the world
\* after the call and the attribute returned, 0 for nullptr
sculpt_attribute_get_ex(w, pbvhtype, domain, proptype, name) ==
  LET layer(w1, cdata, index) ==
        IF cdata # "" /\ index # -1
        THEN [w |-> get_layer(w1, FirstUnused(w1.ss), cdata, index, domain, proptype, name),
              attr |-> FirstUnused(w1.ss)]
        ELSE [w |-> w1, attr |-> 0]
      absent(w1, cdata) ==
        layer(w1, cdata,
              IF cdata = "" THEN -1
              ELSE CustomData_get_named_layer_index(Layers(w1, cdata), proptype, name))
      found(attr) ==
        IF attr # 0
        THEN [w |-> get_cached(w, attr, pbvhtype), attr |-> attr]
        ELSE absent(AssertDomain(w, domain, 2535), sculpt_get_cdata(w.ss, domain))
  IN  found(sculpt_get_cached_layer(w.ss, domain, proptype, name))

\* sculpt_attribute_ensure_ex creating the attribute without looking for it
sculpt_attribute_ensure_ex_no_lookup(w, domain, proptype, name, params, pbvhtype, flat_array_for_bmesh) ==
  LET created(w1, attr) ==
        [w |-> sculpt_attribute_update_refs(
                 sculpt_attribute_create(w1, domain, proptype, name, attr, params,
                                         pbvhtype, flat_array_for_bmesh),
                 pbvhtype),
         attr |-> attr]
  IN  created(sculpt_alloc_attr(w), FirstUnused(w.ss))

\* sculpt_attribute_ensure_ex(ob, domain, proptype, name, params, pbvhtype,
\* flat_array_for_bmesh): the world after the call and the attribute returned
sculpt_attribute_ensure_ex(w, domain, proptype, name, params, pbvhtype, flat_array_for_bmesh) ==
  LET synced(w1, attr) ==
        [w1 EXCEPT !.ss.temp_attributes[attr].params.stroke_only = params.stroke_only]
      created(w1, attr) ==
        [w |-> sculpt_attribute_update_refs(
                 sculpt_attribute_create(w1, domain, proptype, name, attr, params,
                                         pbvhtype, flat_array_for_bmesh),
                 pbvhtype),
         attr |-> attr]
      got(r) ==
        IF r.attr # 0
        THEN [w |-> synced(sculpt_attr_update(r.w, r.attr, pbvhtype), r.attr),
              attr |-> r.attr]
        ELSE created(sculpt_alloc_attr(r.w), FirstUnused(r.w.ss))
  IN  got(sculpt_attribute_get_ex(w, pbvhtype, domain, proptype, name))

\* CustomData_free_layer(cdata, type, totelem, index): the layer at index is
\* removed and its block freed; there is nothing to free at index -1
CustomData_free_layer(w, cdata, index) ==
  IF index = -1 THEN w
  ELSE WithLayers([w EXCEPT !.blocks = MEM_SAFE_FREE(@, Layers(w, cdata)[index + 1].data)],
                  cdata, RemoveAt(Layers(w, cdata), index + 1))

\* BM_data_layer_free_named(bm, cdata, name): the first layer of the name,
\* whatever its type, is removed
BM_data_layer_free_named(w, cdata, name) ==
  LET found == {i \in 1..Len(Layers(w, cdata)) : Layers(w, cdata)[i].name = name}
      first(S) == CHOOSE i \in S : \A j \in S : i <= j
  IN  IF found = {} THEN w
      ELSE WithLayers(w, cdata, RemoveAt(Layers(w, cdata), first(found)))

\* BKE_sculpt_attribute_destroy(ob, attr)
BKE_sculpt_attribute_destroy(w, attr) ==
  LET a == Slot(w, attr)
      same_key(attr2) ==
        attr2.name = a.name /\ attr2.domain = a.domain /\ attr2.proptype = a.proptype
      unregistered(w1) ==
        [w1 EXCEPT !.attrs = [f \in DOMAIN @ |-> IF @[f] = attr THEN 0 ELSE @[f]],
                   !.ss.temp_attributes =
                     [i \in 1..SCULPT_MAX_ATTRIBUTES |->
                        IF same_key(@[i]) THEN [@[i] EXCEPT !.used = FALSE] ELSE @[i]]]
      cleared(w1) ==
        [w1 EXCEPT !.ss.temp_attributes[attr].data = 0,
                   !.ss.temp_attributes[attr].used = FALSE]
      refs(w1) ==
        IF w1.ss.pbvh # "" THEN sculpt_attribute_update_refs(w1, w1.ss.pbvh) ELSE w1
      layer(w1, cdata, layer_i) ==
        refs(IF layer_i # 0 THEN CustomData_free_layer(w1, cdata, layer_i) ELSE w1)
      mesh_layer(w1, cdata) ==
        layer(w1, cdata,
              CustomData_get_named_layer_index(Layers(w1, cdata), a.proptype, a.name))
      released(w1) ==
        IF a.simple_array
        THEN cleared([w1 EXCEPT !.blocks = MEM_SAFE_FREE(@, a.data)])
        ELSE IF w1.ss.bm # NoBM
        THEN cleared(BM_data_layer_free_named(
                       w1, IF a.domain = "Point" THEN "vdata" ELSE "pdata", a.name))
        ELSE IF ~SupportedDomain(a.domain)
        THEN BLI_assert(w1, FALSE, 2980)
        ELSE cleared(mesh_layer(w1, IF a.domain = "Point" THEN "vert_data" ELSE "face_data"))
  IN  released(unregistered(BLI_assert(w, a.used, 2932)))

\* BKE_sculpt_attributes_destroy_temporary_stroke(ob), from slot i on
RECURSIVE destroy_temporary_stroke_from(_, _)
destroy_temporary_stroke_from(w, i) ==
  IF i > SCULPT_MAX_ATTRIBUTES THEN w
  ELSE destroy_temporary_stroke_from(IF Slot(w, i).params.stroke_only
                                     THEN BKE_sculpt_attribute_destroy(w, i)
                                     ELSE w,
                                     i + 1)

BKE_sculpt_attributes_destroy_temporary_stroke(w) == destroy_temporary_stroke_from(w, 1)

\* BKE_sculpt_attribute_destroy_temporary_all(ob), from slot i on
RECURSIVE destroy_temporary_all_from(_, _)
destroy_temporary_all_from(w, i) ==
  IF i > SCULPT_MAX_ATTRIBUTES THEN w
  ELSE destroy_temporary_all_from(IF Slot(w, i).used /\ ~Slot(w, i).params.permanent
                                  THEN BKE_sculpt_attribute_destroy(w, i)
                                  ELSE w,
                                  i + 1)

BKE_sculpt_attribute_destroy_temporary_all(w) == destroy_temporary_all_from(w, 1)

-----------------------------------------------------------------------------
(* The attribute store in a session *)

AttrNames == {"a", "b"}

\* the keys attributes are asked for by: domain, type and name
AttrKeys ==
  {<<"Point", CD_PROP_FLOAT, "a">>, <<"Face", CD_PROP_FLOAT, "a">>,
   <<"Point", CD_PROP_INT32, "b">>, <<"Edge", CD_PROP_FLOAT, "a">>}

\* the parameters callers pass: at most one of them set, so a simple array
\* is never permanent (BLI_assert(!(simple_array && permanent)))
AttrParams ==
  {Params(FALSE, FALSE, FALSE), Params(TRUE, FALSE, FALSE), Params(FALSE, TRUE, FALSE),
   Params(FALSE, FALSE, TRUE)}

\* ss.attrs with no pointer set
NullAttrs ==
  [automasking_factor |-> 0, automasking_cavity |-> 0,
   automasking_occlusion |-> 0, automasking_stroke_id |-> 0]

\* the field of ss.attrs the caller keeps the attribute of a key in, "" if
\* it keeps it elsewhere
AccessorField(domain, proptype, name) ==
  IF <<domain, proptype, name>> = <<"Point", CD_PROP_FLOAT, "a">>
  THEN "automasking_factor" ELSE ""

\* the original mesh of one vertex and one face: its positions are the one
\* vertex layer, whose data the store never sees
AttrMesh == [vert_data |-> <<Layer(CD_PROP_FLOAT3, "position", 0)>>, face_data |-> <<>>]

\* the BMesh of a dynamic-topology session, with the layers
\* BKE_pbvh_build_bmesh's caller ensures
AttrBMesh ==
  [totvert |-> 1,
   vdata |-> <<Layer(CD_PROP_INT32, ".sculpt_dyntopo_node_id_vertex", 0)>>,
   pdata |-> <<Layer(CD_PROP_INT32, ".sculpt_dyntopo_node_id_face", 0)>>]

\* the session of a backend right after its pbvh was built
AttrSession(pbvh) ==
  [pbvh |-> pbvh,
   bm |-> IF pbvh = "BMesh" THEN AttrBMesh ELSE NoBM,
   subdiv_ccg |-> IF pbvh = "Grids" THEN 1 ELSE 0,
   totvert |-> 1, totfaces |-> 1,
   temp_attributes |-> [i \in 1..SCULPT_MAX_ATTRIBUTES |-> ZeroSlot]]

AttrRet(op, attr, trips, again) == [op |-> op, attr |-> attr, trips |-> trips, again |-> again]

AttrsInit ==
  /\ mesh = AttrMesh
  /\ ss \in {AttrSession(pbvh) : pbvh \in {"Mesh", "Grids", "BMesh"}}
  /\ ss_cache = NoStroke
  /\ ss_attrs = NullAttrs
  /\ automasking = NoCache
  /\ pc = "ready"
  /\ ret = AttrRet("none", 0, {}, FALSE)
  /\ hist \in {[ndebug |-> ndebug, blocks |-> <<>>, ops |-> 0] : ndebug \in BOOLEAN}
  /\ call = NoCall

\* the world the next operation of the store works on
CurrentWorld == World(ss, mesh, ss_attrs, hist.blocks)

\* An operation of the store has run to the world w and returned attr: the
\* process is gone if it wrote through nullptr, or if an assertion did not
\* hold in a build with assertions; otherwise the world is the new state
Returned(w, attr, args) ==
  /\ hist.ops < MaxOps
  /\ Len(w.blocks) <= MaxBlocks
  /\ call' = args
  /\ IF w.null_write \/ (w.trips # {} /\ ~hist.ndebug)
     THEN /\ pc' = "aborted"
          /\ ret' = AttrRet(args.fn, 0, w.trips, call = args)
          /\ hist' = [hist EXCEPT !.ops = @ + 1]
          /\ UNCHANGED <<mesh, ss, ss_attrs>>
     ELSE /\ pc' = "ready"
          /\ ret' = AttrRet(args.fn, attr, w.trips, call = args)
          /\ mesh' = w.mesh
          /\ ss' = w.ss
          /\ ss_attrs' = w.attrs
          /\ hist' = [hist EXCEPT !.blocks = w.blocks, !.ops = @ + 1]
  /\ UNCHANGED <<ss_cache, automasking>>

\* BKE_sculpt_attribute_ensure(ob, domain, proptype, name, params), the
\* caller storing the attribute in its field of ss.attrs
AttributeEnsure(domain, proptype, name, params) ==
  /\ pc = "ready"
  /\ LET kept(r, field) ==
           Returned(IF field = "" THEN r.w ELSE [r.w EXCEPT !.attrs[field] = r.attr],
                    r.attr,
                    [fn |-> "ensure", domain |-> domain, proptype |-> proptype,
                     name |-> name, params |-> params])
     IN  kept(sculpt_attribute_ensure_ex(CurrentWorld, domain, proptype, name, params,
                                         ss.pbvh, TRUE),
              AccessorField(domain, proptype, name))

\* BKE_sculpt_attribute_get(ob, domain, proptype, name)
AttributeGet(domain, proptype, name) ==
  /\ pc = "ready"
  /\ LET got(r) ==
           Returned(r.w, r.attr,
                    [fn |-> "get", domain |-> domain, proptype |-> proptype, name |-> name])
     IN  got(sculpt_attribute_get_ex(BLI_assert(CurrentWorld, ss.pbvh # "", 2836),
                                     ss.pbvh, domain, proptype, name))

\* sculpt_attribute_update_refs(ob, pbvhtype), as BKE_sculpt_object_pbvh_ensure
\* and sculpt_update_object call it
UpdateRefs ==
  /\ pc = "ready"
  /\ Returned(sculpt_attribute_update_refs(CurrentWorld, ss.pbvh), 0, [fn |-> "update_refs"])

\* BKE_sculpt_attribute_destroy(ob, attr), attr being a pointer a caller got
\* from ensure or get
AttributeDestroy(attr) ==
  /\ pc = "ready"
  /\ ss.temp_attributes[attr].name # ""
  /\ Returned(BKE_sculpt_attribute_destroy(CurrentWorld, attr), attr,
              [fn |-> "destroy", attr |-> attr])

\* BKE_sculpt_attributes_destroy_temporary_stroke(ob), as a stroke ends
DestroyTemporaryStroke ==
  /\ pc = "ready"
  /\ Returned(BKE_sculpt_attributes_destroy_temporary_stroke(CurrentWorld), 0,
              [fn |-> "destroy_temporary_stroke"])

\* BKE_sculpt_attribute_destroy_temporary_all(ob), as BKE_sculptsession_free
\* calls it
DestroyTemporaryAll ==
  /\ pc = "ready"
  /\ Returned(BKE_sculpt_attribute_destroy_temporary_all(CurrentWorld), 0,
              [fn |-> "destroy_temporary_all"])

\* the block data lengthened or shortened to n elements, in a new block
MEM_reallocN(blocks, data, n) ==
  IF data = 0 THEN blocks
  ELSE
  Append(MEM_SAFE_FREE(blocks, data),
         [elems |-> [i \in 1..n |-> IF i <= Len(blocks[data].elems)
                                    THEN blocks[data].elems[i] ELSE 0],
          live |-> TRUE])

\* the layers of the mesh, from layer k on, after the mesh was replaced by
\* one of n elements: a layer that is not copied is gone, every other layer
\* has n elements
RECURSIVE mesh_layers_resized(_, _, _, _)
mesh_layers_resized(w, cdata, n, k) ==
  LET moved(l) ==
        WithLayers([w EXCEPT !.blocks = MEM_reallocN(@, l.data, n)], cdata,
                   [Layers(w, cdata) EXCEPT ![k].data = IF @ = 0 THEN 0 ELSE Len(w.blocks) + 1])
      resized(l) ==
        IF CD_FLAG_NOCOPY \in l.flag
        THEN mesh_layers_resized(CustomData_free_layer(w, cdata, k - 1), cdata, n, k)
        ELSE mesh_layers_resized(moved(l), cdata, n, k + 1)
  IN  IF k > Len(Layers(w, cdata)) THEN w ELSE resized(Layers(w, cdata)[k])

\* The topology changes: the domain has n elements from now on.  Dynamic
\* topology changes the BMesh, a change of the multires level the number of
\* grid vertices, and an operator that replaces the mesh its layers.
TopologyChange(domain, n) ==
  /\ pc = "ready"
  /\ hist.ops < MaxOps
  /\ n # sculpt_attr_elem_count_get(ss, domain)
  /\ LET changed(w) ==
           /\ Len(w.blocks) <= MaxBlocks
           /\ mesh' = w.mesh
           /\ ss' = w.ss
           /\ hist' = [hist EXCEPT !.blocks = w.blocks, !.ops = @ + 1]
     IN  changed(CASE ss.pbvh = "BMesh" /\ domain = "Point" ->
                        [CurrentWorld EXCEPT !.ss.bm.totvert = n]
                   [] ss.pbvh = "BMesh" /\ domain = "Face" ->
                        [CurrentWorld EXCEPT !.ss.totfaces = n]
                   [] ss.pbvh = "Grids" /\ domain = "Point" ->
                        [CurrentWorld EXCEPT !.ss.subdiv_ccg = n]
                   [] ss.pbvh = "Grids" /\ domain = "Face" ->
                        mesh_layers_resized([CurrentWorld EXCEPT !.ss.totfaces = n],
                                            "face_data", n, 1)
                   [] ss.pbvh = "Mesh" /\ domain = "Point" ->
                        mesh_layers_resized([CurrentWorld EXCEPT !.ss.totvert = n],
                                            "vert_data", n, 1)
                   [] ss.pbvh = "Mesh" /\ domain = "Face" ->
                        mesh_layers_resized([CurrentWorld EXCEPT !.ss.totfaces = n],
                                            "face_data", n, 1))
  /\ call' = [fn |-> "topology_change", domain |-> domain, n |-> n]
  /\ ret' = AttrRet("topology_change", 0, {}, FALSE)
  /\ UNCHANGED <<ss_cache, ss_attrs, automasking, pc>>

\* Brush code writes the value 1 to element i of the attribute's array
AttributeWrite(attr, i) ==
  /\ pc = "ready"
  /\ ss.temp_attributes[attr].used
  /\ ss.temp_attributes[attr].data # 0
  /\ hist.blocks[ss.temp_attributes[attr].data].live
  /\ i \in DOMAIN hist.blocks[ss.temp_attributes[attr].data].elems
  /\ hist.ops < MaxOps
  /\ hist' = [hist EXCEPT !.blocks[ss.temp_attributes[attr].data].elems[i] = 1,
                          !.ops = @ + 1]
  /\ call' = [fn |-> "write", attr |-> attr, i |-> i]
  /\ ret' = AttrRet("write", attr, {}, FALSE)
  /\ UNCHANGED <<mesh, ss, ss_cache, ss_attrs, automasking, pc>>

Domains == {"Point", "Face", "Edge"}

AttrTypes == {CD_PROP_FLOAT, CD_PROP_INT32}

AttrsNext ==
  \/ \E domain \in Domains, proptype \in AttrTypes, name \in AttrNames,
        params \in AttrParams :
       /\ <<domain, proptype, name>> \in AttrKeys
       /\ AttributeEnsure(domain, proptype, name, params)
  \/ \E domain \in Domains, proptype \in AttrTypes, name \in AttrNames :
       /\ <<domain, proptype, name>> \in AttrKeys
       /\ AttributeGet(domain, proptype, name)
  \/ UpdateRefs
  \/ \E attr \in 1..SCULPT_MAX_ATTRIBUTES : AttributeDestroy(attr)
  \/ DestroyTemporaryStroke
  \/ DestroyTemporaryAll
  \/ \E domain \in {"Point", "Face"}, n \in 1..MaxElems : TopologyChange(domain, n)
  \/ \E attr \in 1..SCULPT_MAX_ATTRIBUTES, i \in {1} : AttributeWrite(attr, i)

SpecAttrs == AttrsInit /\ [][AttrsNext]_vars

-----------------------------------------------------------------------------
(* Properties of the attribute store *)

\* the attributes in use
Live == {i \in 1..SCULPT_MAX_ATTRIBUTES : ss.temp_attributes[i].used}

\* the last operation of the store returned
AfterStore(fn) == pc = "ready" /\ ret.op = fn /\ call.fn = fn

\* C11: sculpt_attribute_update_refs called right after a call of it that
\* returned, the mesh being the same, recreates nothing: every attribute
\* keeps its slot with its name, domain, type, parameters and data pointer,
\* no block is allocated or freed or written, and no layer changes.
C11_UpdateRefsIdempotent ==
  [][(AfterStore("update_refs") /\ call'.fn = "update_refs")
       => /\ ss' = ss
          /\ mesh' = mesh
          /\ ss_attrs' = ss_attrs
          /\ hist'.blocks = hist.blocks]_vars

\* update_refs ran twice in a row with an attribute in use that the first
\* run had to create again for a domain of two elements
C11_Witness ==
  /\ AfterStore("update_refs")
  /\ ret.again
  /\ \E i \in Live : /\ ss.temp_attributes[i].elem_num = 2
                     /\ ss.temp_attributes[i].data # 0
                     /\ Len(hist.blocks[ss.temp_attributes[i].data].elems) = 2

\* the slots in use after the step
LiveAfter == {i \in 1..SCULPT_MAX_ATTRIBUTES : ss'.temp_attributes[i].used}

\* the attribute in slot i, used before and after the step, has the name,
\* domain, type and parameters it had
SameAttribute(i) ==
  /\ ss'.temp_attributes[i].used
  /\ ss'.temp_attributes[i].name = ss.temp_attributes[i].name
  /\ ss'.temp_attributes[i].domain = ss.temp_attributes[i].domain
  /\ ss'.temp_attributes[i].proptype = ss.temp_attributes[i].proptype
  /\ ss'.temp_attributes[i].params = ss.temp_attributes[i].params

\* after the step the attribute in slot i has an array of n elements
ArrayOfLength(i, n) ==
  /\ ss'.temp_attributes[i].data # 0
  /\ hist'.blocks[ss'.temp_attributes[i].data].live
  /\ Len(hist'.blocks[ss'.temp_attributes[i].data].elems) = n
  /\ ss'.temp_attributes[i].elem_num = n

\* C12: sculpt_attribute_update_refs called after the element count of a
\* domain changed returns (no assertion fails in a debug build), and every
\* attribute of the domain is still in its slot with its name, domain, type
\* and parameters and has an array of the new number of elements.
C12_ResizeOnTopologyChange ==
  [][(AfterStore("topology_change") /\ call'.fn = "update_refs")
       => /\ pc' = "ready"
          /\ \A i \in Live :
               ss.temp_attributes[i].domain = call.domain
                 => SameAttribute(i) /\ ArrayOfLength(i, call.n)]_vars

\* the step is a call of BKE_sculpt_attribute_ensure for a domain that has
\* elements, and the call returns
EnsureReturns ==
  /\ pc = "ready" /\ pc' = "ready"
  /\ hist'.ops = hist.ops + 1
  /\ call'.fn = "ensure"
  /\ SupportedDomain(call'.domain)

\* the slot of the live attribute that has the key of the call the step
\* makes, 0 if there is none before the step
KeySlot == sculpt_get_cached_layer(ss, call'.domain, call'.proptype, call'.name)

\* before the step the backend has a named layer with the key of the call
KeyLayer ==
  LET has(cdata) ==
        /\ cdata # ""
        /\ CustomData_get_named_layer_index(Layers(CurrentWorld, cdata),
                                            call'.proptype, call'.name) # -1
  IN  has(sculpt_get_cdata(ss, call'.domain))

\* the call returned a live attribute with its key and the current element
\* count of its domain
ReturnsLiveAttribute ==
  /\ ret'.attr # 0
  /\ ss'.temp_attributes[ret'.attr].used
  /\ ss'.temp_attributes[ret'.attr].name = call'.name
  /\ ss'.temp_attributes[ret'.attr].domain = call'.domain
  /\ ss'.temp_attributes[ret'.attr].proptype = call'.proptype
  /\ ss'.temp_attributes[ret'.attr].elem_num = sculpt_attr_elem_count_get(ss', call'.domain)

\* a key that was live before the call is returned in its slot and no slot
\* is taken
ReturnsSameSlot ==
  KeySlot # 0
    => /\ ret'.attr = KeySlot
       /\ LiveAfter = Live

\* the returned attribute is a simple array and is not permanent
ReturnsSimpleArray ==
  /\ ss'.temp_attributes[ret'.attr].simple_array
  /\ ~ss'.temp_attributes[ret'.attr].params.permanent
  /\ ss'.temp_attributes[ret'.attr].data # 0
  /\ hist'.blocks[ss'.temp_attributes[ret'.attr].data].live

GetReturns ==
  /\ pc = "ready" /\ pc' = "ready"
  /\ hist'.ops = hist.ops + 1
  /\ call'.fn = "get"

\* the step changes neither the registry nor the allocator nor the layers
StoreUnchanged ==
  /\ ss' = ss
  /\ mesh' = mesh
  /\ hist'.blocks = hist.blocks

Stale(i) ==
  attr_is_bad(CurrentWorld, ss.temp_attributes[i],
              sculpt_get_cdata(ss, ss.temp_attributes[i].domain), ss.pbvh)

\* the step changes nothing but the pointer to the data and the offset that
\* the attribute in slot i has of its layer
OnlyRefreshed(i) ==
  /\ [ss' EXCEPT !.temp_attributes[i].data = 0, !.temp_attributes[i].bmesh_cd_offset = 0]
       = [ss EXCEPT !.temp_attributes[i].data = 0, !.temp_attributes[i].bmesh_cd_offset = 0]
  /\ ss.temp_attributes[i].simple_array => ss' = ss
  /\ mesh' = mesh
  /\ hist'.blocks = hist.blocks

DestroyReturns ==
  /\ pc = "ready" /\ pc' = "ready"
  /\ hist'.ops = hist.ops + 1
  /\ call'.fn = "destroy"
  /\ ss.temp_attributes[call'.attr].used

\* slots i and j hold the same name, domain and type before the step
SameKey(i, j) ==
  /\ ss.temp_attributes[i].name = ss.temp_attributes[j].name
  /\ ss.temp_attributes[i].domain = ss.temp_attributes[j].domain
  /\ ss.temp_attributes[i].proptype = ss.temp_attributes[j].proptype

\* after the step the storage that the attribute in slot i had before it is
\* released: its array is freed, or no layer of its type and name is left in
\* the CustomData of its domain
StorageReleased(i) ==
  LET gone(cdata) ==
        \/ cdata = ""
        \/ CustomData_get_named_layer_index(
             Layers([CurrentWorld EXCEPT !.ss = ss', !.mesh = mesh'], cdata),
             ss.temp_attributes[i].proptype, ss.temp_attributes[i].name) = -1
  IN  IF ss.temp_attributes[i].simple_array
      THEN ss.temp_attributes[i].data # 0 => ~hist'.blocks[ss.temp_attributes[i].data].live
      ELSE gone(sculpt_get_cdata(ss, ss.temp_attributes[i].domain))

\* C15: after BKE_sculpt_attribute_destroy of a live attribute its slot is
\* unused, no pointer of ss->attrs refers to it, its array is freed or its
\* layer removed from the CustomData, and the live attributes with another
\* key are still live.
C15_DestroyReleases ==
  [][DestroyReturns
       => /\ ~ss'.temp_attributes[call'.attr].used
          /\ \A f \in DOMAIN ss_attrs' : ss_attrs'[f] # call'.attr
          /\ StorageReleased(call'.attr)
          /\ \A j \in Live : ~SameKey(j, call'.attr) => j \in LiveAfter]_vars

\* C16: a second BKE_sculpt_attribute_destroy of the attribute that the call
\* before it destroyed returns (no assertion fails in a debug build) and
\* changes neither the registry nor ss->attrs nor the allocator nor the layers.
C16_DestroyTwice ==
  [][(/\ AfterStore("destroy")
      /\ call'.fn = "destroy" /\ call'.attr = call.attr
      /\ hist'.ops = hist.ops + 1)
       => /\ pc' = "ready"
          /\ StoreUnchanged
          /\ ss_attrs' = ss_attrs]_vars

\* C17: BKE_sculpt_attribute_ensure for a domain that is neither Point nor
\* Face returns (no assertion fails in a debug build) nullptr or an attribute
\* that is not in use, and no slot has become live and no block was allocated.
C17_EnsureUnsupportedDomain ==
  [][(/\ pc = "ready"
      /\ call'.fn = "ensure"
      /\ hist'.ops = hist.ops + 1
      /\ ~SupportedDomain(call'.domain)
      /\ KeySlot = 0)
       => /\ pc' = "ready"
          /\ ret'.attr = 0 \/ ~ss'.temp_attributes[ret'.attr].used
          /\ LiveAfter = Live
          /\ hist'.blocks = hist.blocks]_vars

\* no two slots in use hold the same name, domain and type
UniqueKeys ==
  \A i, j \in Live : SameKey(i, j) => i = j

\* the step is a call of BKE_sculpt_attribute_ensure for a key that is not
\* live, of a domain that has elements, with a slot left
EnsureNewKey ==
  /\ pc = "ready"
  /\ call'.fn = "ensure"
  /\ hist'.ops = hist.ops + 1
  /\ SupportedDomain(call'.domain)
  /\ KeySlot = 0
  /\ Cardinality(Live) < SCULPT_MAX_ATTRIBUTES

\* C18: at most SCULPT_MAX_ATTRIBUTES attributes are live and no two of them
\* have the same name, domain and type; BKE_sculpt_attribute_ensure for a key
\* that is not live, with fewer than SCULPT_MAX_ATTRIBUTES live, returns a live
\* attribute with that key.
C18_RegistryBounded ==
  /\ [](Cardinality(Live) <= SCULPT_MAX_ATTRIBUTES /\ UniqueKeys)
  /\ [][EnsureNewKey => pc' = "ready" /\ ReturnsLiveAttribute]_vars

\* the attribute in slot i is as it was before the step, and so is its array
KeptWithStorage(i) ==
  /\ ss'.temp_attributes[i] = ss.temp_attributes[i]
  /\ ss.temp_attributes[i].data # 0
       => hist'.blocks[ss.temp_attributes[i].data] = hist.blocks[ss.temp_attributes[i].data]

\* the step is a call of fn that destroys the attributes of the set gone
\* and nothing else
DestroysExactly(fn, gone) ==
  (pc = "ready" /\ call'.fn = fn /\ hist'.ops = hist.ops + 1)
    => /\ pc' = "ready"
       /\ LiveAfter = Live \ gone
       /\ \A i \in Live \ gone : KeptWithStorage(i)

\* C19: BKE_sculpt_attributes_destroy_temporary_stroke returns with exactly
\* the live attributes with params.stroke_only destroyed, and
\* BKE_sculpt_attribute_destroy_temporary_all with exactly the live attributes
\* without params.permanent destroyed; every other live attribute is live
\* after the call, unchanged and with its array unchanged.
C19_DestroyTemporary ==
  [][/\ DestroysExactly("destroy_temporary_stroke",
                        {i \in Live : ss.temp_attributes[i].params.stroke_only})
     /\ DestroysExactly("destroy_temporary_all",
                        {i \in Live : ~ss.temp_attributes[i].params.permanent})]_vars

-----------------------------------------------------------------------------
(* The parallel brush pass: the calculators of sculpt_automasking.cc run   *)
(* by concurrent tasks, one per node, each node with its own elements.     *)
(* A step of a task is one factor_get.                                     *)

Tasks == {1, 2}

\* two triangles 0-1-2 and 2-1-3 that share the edge 1-2
TrianglesMesh ==
  MkMesh("Mesh", 4, {{0, 1}, {0, 2}, {1, 2}, {1, 3}, {2, 3}},
         <<<<0, 0>>, <<1, 1>>, <<2, 0>>, <<3, 1>>>>,
         <<1, 1, 1, -1>>, {0, 3},
         <<{1}, {1}, {1, 2}, {2}>>, {1}, 0)

\* the faces of TrianglesMesh: the offsets of the faces into corner_verts
TriangleFaces == [faces |-> <<0, 3, 6>>, corner_verts |-> <<0, 1, 2, 2, 1, 3>>]

\* key.grid_area: the number of vertices of a grid
GridArea == 2

\* two grids in a row
GridsMesh ==
  MkMesh("Grids", 2 * GridArea,
         {{i, i + 1} : i \in 0 .. (2 * GridArea - 2)},
         [i \in 1 .. (2 * GridArea) |-> <<i - 1, i % 2>>],
         [i \in 1 .. (2 * GridArea) |-> 1], {0},
         [i \in 1 .. (2 * GridArea) |-> {1}], {1}, 0)

PassMeshes == {TrianglesMesh, GridsMesh, FanMesh}

\* the calculators that run on a mesh and the elements they are called for
PassElements(m, fn) ==
  CASE fn = "calc_vert_factors" /\ m.pbvh \in {"Mesh", "BMesh"} -> Verts(m)
    [] fn = "calc_face_factors" /\ m = TrianglesMesh -> 0 .. (Len(TriangleFaces.faces) - 2)
    [] fn = "calc_grids_factors" /\ m.pbvh = "Grids" -> 0 .. (m.n \div GridArea - 1)
    [] OTHER -> {}

\* the factor_get calls of a calculator for the elements of a node, in the
\* order of its loops: the element, the vertex queried, the number of
\* queries of the element and whether orig_normals is passed
RECURSIVE Flatten(_)
Flatten(seqs) == IF seqs = <<>> THEN <<>> ELSE Head(seqs) \o Flatten(Tail(seqs))

NodeQueries(call_args, elems) ==
  LET face_verts(f) ==
        SubSeq(call_args.corner_verts, call_args.faces[f + 1] + 1, call_args.faces[f + 2])
      of_face(f) ==
        [k \in 1 .. Len(face_verts(f)) |->
           [elem |-> f, vert |-> face_verts(f)[k], size |-> Len(face_verts(f)),
            orig |-> FALSE]]
      of_grid(g) ==
        [k \in 1 .. GridArea |->
           [elem |-> g, vert |-> g * GridArea + (k - 1), size |-> GridArea, orig |-> TRUE]]
      of_vert(v) == <<[elem |-> v, vert |-> v, size |-> 1, orig |-> TRUE]>>
      each(op(_), order) == Flatten([k \in 1 .. Len(order) |-> op(order[k])])
  IN  CASE call_args.fn = "calc_face_factors" -> each(of_face, SortedSeq(elems))
        [] call_args.fn = "calc_grids_factors" -> each(of_grid, SortedSeq(elems))
        [] OTHER -> each(of_vert, SortedSeq(elems))

\* the locations of the attribute buffers that a factor_get for vert writes,
\* r being what the call returned: the stamp at every return through
\* automasking_factor_end, the cavity value and the occlusion state where the
\* stamp was not the one of the stroke
factor_get_writes(cache, attrs, vert, r) ==
  LET stamps == attrs.automasking_stroke_id # NoAttr
      stale == ~stamps \/ attrs.automasking_stroke_id[vert] # cache.current_stroke_id
  IN  {<<"automasking_stroke_id", vert>> :
         x \in {1} \cap (IF stamps /\ r.path \in {"buffer", "occluded", "live"}
                         THEN {1} ELSE {})}
      \cup {<<"automasking_cavity", vert>> :
              x \in {1} \cap (IF /\ Has(cache.settings.flags, CAVITY_ALL)
                                 /\ r.path \in {"buffer", "live"}
                                 /\ stale
                              THEN {1} ELSE {})}
      \cup {<<"automasking_occlusion", vert>> :
              x \in {1} \cap (IF /\ {VIEW_OCCLUSION, VIEW_NORMAL} \subseteq cache.settings.flags
                                 /\ r.path # "buffer"
                                 /\ stale
                              THEN {1} ELSE {})}

\* sculpt mode is entered on one of the meshes
PassInit ==
  /\ mesh = 0
  /\ ss = NewSession
  /\ ss_cache = NoStroke
  /\ ss_attrs = NoAttrs
  /\ automasking = NoCache
  /\ pc = "idle"
  /\ ret = NoRet
  /\ hist = NoHist
  /\ \E m \in PassMeshes : call = [fn |-> "none", m |-> m]

\* cache_init(depsgraph, sd, brush, ob) as the stroke starts on the mesh
PassCacheInit(sd) ==
  /\ pc = "begun"
  /\ LET returned(r) ==
           /\ automasking' = r.value
           /\ ss' = r.ss
           /\ ss_attrs' = r.attrs
           /\ ret' = [NoRet EXCEPT !.op = "cache_init", !.log = r.log]
     IN  returned(cache_init(call.m, ss, ss_cache, ss_attrs, sd,
                             ss_cache.brush, ss_cache.paint_brush))
  /\ call' = [fn |-> "cache_init", m |-> call.m]
  /\ pc' = "ready"
  /\ UNCHANGED <<mesh, ss_cache, hist>>

\* the brush runs calculator fn over the nodes, one task per node; nodes[t]
\* are the elements of the node of task t; hist keeps the attribute buffers
\* as they were when the pass started
PassStart(fn, nodes) ==
  /\ pc = "ready"
  /\ automasking # NoCache
  /\ nodes[1] \cap nodes[2] = {}
  /\ nodes[1] \cup nodes[2] = PassElements(call.m, fn)
  /\ nodes[1] # {} /\ nodes[2] # {}
  /\ call' = [fn |-> fn, m |-> call.m, nodes |-> nodes,
              faces |-> TriangleFaces.faces, corner_verts |-> TriangleFaces.corner_verts]
  /\ ret' = [op |-> fn, done |-> [t \in Tasks |-> 0], sum |-> [t \in Tasks |-> RZero],
             factors |-> [t \in Tasks |-> <<>>]]
  /\ hist' = [writes |-> [t \in Tasks |-> {}], attrs |-> ss_attrs]
  /\ pc' = "pass"
  /\ UNCHANGED <<mesh, ss, ss_cache, ss_attrs, automasking>>

\* the next factor_get of task t: calc_vert_factors and calc_grids_factors
\* multiply the factor of the vertex by it, calc_face_factors adds it to the
\* sum of the face and multiplies the factor of the face by the mean after
\* the last corner
TaskQuery(t) ==
  /\ pc = "pass"
  /\ ret.done[t] < Len(NodeQueries(call, call.nodes[t]))
  /\ LET q == NodeQueries(call, call.nodes[t])[ret.done[t] + 1]
         last == ret.done[t] + 1 = Len(NodeQueries(call, call.nodes[t]))
                   \/ NodeQueries(call, call.nodes[t])[ret.done[t] + 2].elem # q.elem
         returned(r, sum) ==
           /\ ss_attrs' = r.attrs
           /\ hist' = [hist EXCEPT !.writes[t] =
                         @ \cup factor_get_writes(automasking, ss_attrs, q.vert, r)]
           /\ ret' = [ret EXCEPT !.done[t] = @ + 1,
                                 !.sum[t] = IF last THEN RZero ELSE sum,
                                 !.factors[t] =
                                   IF call.fn # "calc_face_factors"
                                   THEN Append(@, r.value)
                                   ELSE IF last
                                   THEN Append(@, RMul(sum, RDiv(ROne, RInt(q.size))))
                                   ELSE @]
         queried(r) == returned(r, RAdd(ret.sum[t], r.value))
     IN  queried(factor_get(call.m, automasking, ss_cache, ss_attrs, q.vert,
                            IF q.orig THEN OrigNormal(call.m, automasking, q.vert) ELSE 0))
  /\ UNCHANGED <<mesh, ss, ss_cache, automasking, pc, call>>

\* every task has run through its node
PassJoin ==
  /\ pc = "pass"
  /\ \A t \in Tasks : ret.done[t] = Len(NodeQueries(call, call.nodes[t]))
  /\ pc' = "joined"
  /\ UNCHANGED <<mesh, ss, ss_cache, ss_attrs, automasking, ret, hist, call>>

Calculators == {"calc_vert_factors", "calc_face_factors", "calc_grids_factors"}

\* the ways the elements 0 .. 3 are given to two nodes
NodeSplits == {<<a, b>> : a \in SUBSET (0 .. 3), b \in SUBSET (0 .. 3)}

ParallelNext ==
  \/ BeginStroke
  \/ \E sd \in SculptSettings(StrokeFlags) : PassCacheInit(sd)
  \/ \E fn \in Calculators, nodes \in NodeSplits : PassStart(fn, nodes)
  \/ \E t \in Tasks : TaskQuery(t)
  \/ PassJoin

SpecParallel == PassInit /\ [][ParallelNext]_vars

-----------------------------------------------------------------------------
(* Properties of the parallel pass *)

\* C20: during a pass of calc_vert_factors, calc_grids_factors or
\* calc_face_factors over nodes with disjoint elements no location of the
\* stroke id, cavity or occlusion buffer is written by two tasks.
C20_DisjointWrites ==
  pc \in {"pass", "joined"}
    => \A t1, t2 \in Tasks : t1 # t2 => hist.writes[t1] \cap hist.writes[t2] = {}

\* the queries one after another on the attribute buffers attrs: the buffers
\* after the last one and the values returned, in the order of the queries
RECURSIVE SequentialQueries(_, _, _)
SequentialQueries(attrs, queries, values) ==
  LET q == Head(queries)
      returned(r) == SequentialQueries(r.attrs, Tail(queries), Append(values, r.value))
  IN  IF queries = <<>>
      THEN [attrs |-> attrs, values |-> values]
      ELSE returned(factor_get(call.m, automasking, ss_cache, attrs, q.vert,
                               IF q.orig THEN OrigNormal(call.m, automasking, q.vert)
                               ELSE 0))

\* the queries of the pass, those of the node of task t first
QueriesFrom(t) ==
  NodeQueries(call, call.nodes[t]) \o NodeQueries(call, call.nodes[3 - t])

\* no vertex is queried twice in the pass
DistinctVertices ==
  \A i, j \in 1 .. Len(QueriesFrom(1)) :
    i # j => QueriesFrom(1)[i].vert # QueriesFrom(1)[j].vert

\* C21: after cache_init, when the tasks of a pass have made their
\* factor_get calls on pairwise distinct vertices in some interleaving, every
\* call has returned the value, and the stroke id, cavity and occlusion
\* buffers hold the values, that the calls give when they run one after
\* another, the node of either task first.
C21_QueriesCommute ==
  (pc = "joined" /\ DistinctVertices)
    => \A t \in Tasks :
         /\ ss_attrs = SequentialQueries(hist.attrs, QueriesFrom(t), <<>>).attrs
         /\ ret.factors[t] \o ret.factors[3 - t]
              = SequentialQueries(hist.attrs, QueriesFrom(t), <<>>).values

\* a pass over distinct vertices in which both tasks recomputed a cavity
\* value and the values returned are not all the same
C21_Witness ==
  /\ pc = "joined"
  /\ DistinctVertices
  /\ \A t \in Tasks : \E v \in Verts(call.m) : <<"automasking_cavity", v>> \in hist.writes[t]
  /\ \E i, j \in 1 .. Len(ret.factors[1]) : ret.factors[1][i] # ret.factors[1][j]
  /\ ss_attrs # hist.attrs

-----------------------------------------------------------------------------
(* Properties of the precompute (continued) *)

\* the flood of the precompute is one of a stroke whose brush is constrained
\* by its radius
RadiusConstrained == ss_cache.kind = "stroke" /\ is_constrained_by_radius(ss_cache.brush)

\* v was accepted by a flood gated by distance, or is a candidate next to
\* such a vertex: the callback marks a candidate before it tests it
NextToFloodRadius(v) ==
  InsideFloodRadius(v) \/ \E u \in Neighbors(Meshes[mesh], v) : InsideFloodRadius(u)

\* C22: after a precompute that ran the topology flood, when the brush of
\* the stroke is constrained by radius only vertices within the brush radius
\* of the seed were accepted, so a vertex with a factor other than 0 is such
\* a vertex or a neighbour of one; for every other brush, and for a filter,
\* every vertex of the seed's island is reached, whatever its distance, and
\* has the factor that the subtractive modes make of 1.
C22_RadiusGate ==
  (AfterCacheInit /\ LogHas("topology") /\ ~LogHas("normal_occlusion")) =>
    LET m == Meshes[mesh]
        factor == ss_attrs.automasking_factor
    IN  IF RadiusConstrained
        THEN \A v \in Verts(m) : factor[v] # RZero => NextToFloodRadius(v)
        ELSE \A v \in Verts(m) :
               (/\ vert_id_get(m, v) = vert_id_get(m, ss.active_vert)
                /\ Neighbors(m, ss.active_vert) # {}) => factor[v] = SubtractedFromOne[v]

\* a mode that is enabled for the stroke has propagation or radius semantics
\* that a live query cannot give: a boundary mode whose effective number of
\* propagation steps is not 1, or topology with a brush constrained by radius
NonTrivialMode(sd, brush) ==
  \/ /\ Has(calc_effective_bits(sd, brush), {BOUNDARY_EDGES, BOUNDARY_FACE_SETS})
     /\ boundary_propagation_steps(sd, brush) # 1
  \/ /\ TOPOLOGY \in calc_effective_bits(sd, brush)
     /\ brush # NoBrush
     /\ is_constrained_by_radius(brush)

\* C23: a cache_init that returns a cache leaves a precomputed factor buffer
\* exactly when an enabled mode has non-trivial propagation or radius
\* semantics, whichever other modes are enabled.
C23_PrecomputeExactlyWhenNeeded ==
  (AfterCacheInit /\ automasking # NoCache) =>
    (ss_attrs.automasking_factor # NoAttr <=> NonTrivialMode(call.sd, ss_cache.brush))

\* the precompute calculators of cache_init in their order
PrecomputeOrder ==
  <<"init", "topology", "face_sets", "boundary_edges", "boundary_face_sets",
    "normal_occlusion">>

Position(name) == CHOOSE i \in DOMAIN PrecomputeOrder : PrecomputeOrder[i] = name

\* the buffer calculator name leaves when it runs on the buffer factor, in
\* the state cache_init returned in
RunCalculator(name, factor) ==
  LET m == Meshes[mesh]
      steps == boundary_propagation_steps(call.sd, ss_cache.brush)
      mode == calc_effective_bits(call.sd, ss_cache.brush)
  IN  CASE name = "init" ->
             [v \in Verts(m) |-> IF TOPOLOGY \notin mode THEN ROne ELSE RZero]
        [] name = "topology" ->
             fill_topology_automasking_factors(m, factor, ss_cache.kind = "stroke",
                                               ss_cache.radius, ss_cache.paint_brush,
                                               ss.active_vert)
        [] name = "face_sets" ->
             init_face_sets_masking(
               m, factor,
               is_enabled(call.sd, ss_cache.paint_brush,
                          stroke_is_dyntopo(m, ss_cache.paint_brush)),
               ss.active_face_set)
        [] name = "boundary_edges" -> init_boundary_masking(m, factor, "Edges", steps)
        [] name = "boundary_face_sets" -> init_boundary_masking(m, factor, "FaceSets", steps)
        [] name = "normal_occlusion" ->
             normal_occlusion_automasking_fill(
               m, automasking, ss_cache, ss.stroke_id,
               [ss_attrs EXCEPT !.automasking_factor = factor],
               mode \cap {VIEW_NORMAL, VIEW_OCCLUSION}).automasking_factor

\* the calculators of log one after another, each on the buffer the one
\* before it left
RECURSIVE RunLogged(_, _)
RunLogged(log, factor) ==
  IF log = <<>> THEN factor
  ELSE RunLogged(Tail(log), RunCalculator(Head(log), factor))

\* C24: the calculators a cache_init ran are, in the order they ran, the
\* buffer initialisation followed by calculators in the order topology, face
\* set, boundary edges, face set boundaries, normal/occlusion, each at most
\* once; and the buffer it leaves is the one these calculators give when
\* each runs on the result of all that ran before it.
C24_FixedOrder ==
  (AfterCacheInit /\ ret.log # <<>>) =>
    /\ ret.log[1] = "init"
    /\ \A i, j \in DOMAIN ret.log : i < j => Position(ret.log[i]) < Position(ret.log[j])
    /\ ss_attrs.automasking_factor = RunLogged(ret.log, <<>>)

\* a cache_init that ran the flood, the face set, boundary edge and normal
\* calculators and left a factor strictly between 0 and 1
C24_Witness ==
  /\ AfterCacheInit
  /\ ret.log = <<"init", "topology", "face_sets", "boundary_edges", "normal_occlusion">>
  /\ \E v \in Verts(Meshes[mesh]) :
       /\ RLt(RZero, ss_attrs.automasking_factor[v])
       /\ RLt(ss_attrs.automasking_factor[v], ROne)

\* the buffer as the calculators before the last one of the log left it
BeforeLast == RunLogged(SubSeq(ret.log, 1, Len(ret.log) - 1), <<>>)

\* C25: after a precompute that ran the normal/occlusion calculator with
\* view occlusion and view normal both enabled, every occluded vertex has
\* factor 0 and every other vertex has the factor the earlier calculators
\* left, scaled by the view-normal falloff only.
C25_OccludedZero ==
  (/\ AfterCacheInit
   /\ LogHas("normal_occlusion")
   /\ {VIEW_NORMAL, VIEW_OCCLUSION} \subseteq automasking.settings.flags) =>
    \A v \in Verts(Meshes[mesh]) :
      ss_attrs.automasking_factor[v] =
        IF SCULPT_vertex_is_occluded(Meshes[mesh], v)
        THEN RZero
        ELSE RMul(BeforeLast[v],
                  calc_view_normal_factor(Meshes[mesh], automasking, ss_cache, v, 0))

-----------------------------------------------------------------------------
(* The face set precompute at the start of a stroke or filter, on every    *)
(* mesh, with every active face set                                        *)

FaceSetsBrushes == {GrabBrush, DrawFaceSetsBrush, DyntopoBrush}

FaceSetsFlags ==
  {{FACE_SETS}, {FACE_SETS, TOPOLOGY}, {FACE_SETS, BOUNDARY_EDGES},
   {FACE_SETS, BOUNDARY_FACE_SETS}, {BOUNDARY_EDGES}}

FaceSetsInit == \E i \in DOMAIN Meshes : SessionInit(i)

\* a stroke with one of the brushes, or a filter while one of them is the
\* brush of the paint settings
FaceSetsBegin ==
  /\ ss.stroke_id = 0
  /\ \E brush \in FaceSetsBrushes, active_vert \in {0, 2}, active_face_set \in {1, 2} :
       \/ StrokeBegin(brush, BrushRadius, active_vert, active_face_set, 1)
       \/ FilterBegin(brush, active_vert, active_face_set, 1)

FaceSetsCacheInit ==
  \E sd \in SculptSettings(FaceSetsFlags) : CacheInit(sd)

FaceSetsNext == FaceSetsBegin \/ FaceSetsCacheInit \/ Query

SpecFaceSets == FaceSetsInit /\ [][FaceSetsNext]_vars

\* the place of the face set calculator in the log of the cache_init
FaceSetsAt == CHOOSE i \in DOMAIN ret.log : ret.log[i] = "face_sets"

\* the buffer as the calculators before the face set calculator left it
BeforeFaceSets == RunLogged(SubSeq(ret.log, 1, FaceSetsAt - 1), <<>>)

\* that buffer with factor 0 at every vertex that does not belong to the
\* active face set
OutsideFaceSetZeroed ==
  [v \in Verts(Meshes[mesh]) |->
     IF vert_has_face_set(Meshes[mesh], v, ss.active_face_set)
     THEN BeforeFaceSets[v] ELSE RZero]

\* C26: after a precompute that ran the face set calculator the buffer is
\* the one the later calculators make of the buffer the face set calculator
\* was given with the factor of every vertex outside the active face set
\* set to 0 and every other factor unchanged.
C26_FaceSetZeroed ==
  (AfterCacheInit /\ LogHas("face_sets")) =>
    ss_attrs.automasking_factor
      = RunLogged(SubSeq(ret.log, FaceSetsAt + 1, Len(ret.log)), OutsideFaceSetZeroed)

-----------------------------------------------------------------------------
(* Repeated queries within one stroke.  hist counts, per vertex, the runs   *)
(* of calc_blurred_cavity and of the occlusion test since the stroke began. *)

MaxRepeat == 3

RepeatFlags ==
  {{CAVITY_NORMAL}, {CAVITY_NORMAL, FACE_SETS}, {VIEW_NORMAL, VIEW_OCCLUSION},
   {VIEW_NORMAL, VIEW_OCCLUSION, BOUNDARY_EDGES},
   {VIEW_NORMAL, VIEW_OCCLUSION, CAVITY_INVERTED}, {CAVITY_NORMAL, BOUNDARY_EDGES}}

RepeatInit == SessionInit(1)

RepeatBegin ==
  /\ ss.stroke_id = 0
  /\ \E brush \in FactorBrushes : StrokeBegin(brush, BrushRadius, 0, 1, 1)

RepeatCacheInit ==
  \E sd \in SculptSettings(RepeatFlags) : CacheInit(sd)

\* the runs counted so far
Runs(buffer) ==
  IF buffer \in DOMAIN hist THEN hist[buffer] ELSE [v \in Verts(Meshes[mesh]) |-> 0]

\* factor_get for vert, as FactorGet, counting its run of
\* calc_blurred_cavity and of SCULPT_vertex_is_occluded
RepeatQuery(vert) ==
  /\ pc = "ready"
  /\ automasking # NoCache
  /\ ret.queries < MaxRepeat
  /\ LET ran(r, buffer) ==
           IF <<buffer, vert>> \in factor_get_writes(automasking, ss_attrs, vert, r)
           THEN 1 ELSE 0
         returned(r) ==
           /\ ss_attrs' = r.attrs
           /\ ret' = [ret EXCEPT !.op = "factor_get", !.value = r.value,
                                 !.path = r.path, !.queries = @ + 1]
           /\ hist' = [automasking_cavity |->
                         [Runs("automasking_cavity") EXCEPT
                            ![vert] = @ + ran(r, "automasking_cavity")],
                       automasking_occlusion |->
                         [Runs("automasking_occlusion") EXCEPT
                            ![vert] = @ + ran(r, "automasking_occlusion")]]
     IN  returned(factor_get(Meshes[mesh], automasking, ss_cache, ss_attrs, vert,
                             OrigNormal(Meshes[mesh], automasking, vert)))
  /\ call' = [fn |-> "factor_get", vert |-> vert,
               orig_normal |-> OrigNormal(Meshes[mesh], automasking, vert)]
  /\ UNCHANGED <<mesh, ss, ss_cache, automasking, pc>>

RepeatNext ==
  \/ RepeatBegin
  \/ RepeatCacheInit
  \/ \E vert \in Verts(Meshes[mesh]) : RepeatQuery(vert)

SpecRepeat == RepeatInit /\ [][RepeatNext]_vars

\* C27: within a stroke calc_blurred_cavity and the occlusion test have each
\* run at most once for every vertex, however often the vertex was queried.
C27_OncePerStroke ==
  \A v \in Verts(Meshes[mesh]) :
    Runs("automasking_cavity")[v] <= 1 /\ Runs("automasking_occlusion")[v] <= 1

-----------------------------------------------------------------------------
(* Properties of calc_blurred_cavity (continued) *)

\* the sums the while loop of the call has gathered when it ends
CavityRings ==
  CavityGather(call.m, call.blur_steps + 1, call.vertex,
    [queue |-> <<<<call.vertex, 0>>>>, visit |-> {call.vertex},
     sco1 |-> <<RZero, RZero>>, sno1 |-> 0, len1_sum |-> RZero, sco1_len |-> 0,
     sco2 |-> <<RZero, RZero>>, sno2 |-> 0, sco2_len |-> 0])

\* the vertex has no neighbours, or its connected component lies within
\* cavity_blur_steps hops of it, or every vertex gathered is at its position
DegenerateCavity ==
  \/ Neighbors(call.m, call.vertex) = {}
  \/ Within(call.m, {call.vertex}, call.blur_steps)
       = Within(call.m, {call.vertex}, call.blur_steps + 1)
  \/ \A u \in Within(call.m, {call.vertex}, call.blur_steps + 1) :
       Co(call.m, u) = Co(call.m, call.vertex)

\* C28: calc_blurred_cavity on degenerate geometry ends with the outer count
\* different from the inner count, so that BLI_assert(sco1_len != sco2_len)
\* holds, and stores a number in [0, 1].
C28_DegenerateDefined ==
  (AfterBlurredCavity /\ DegenerateCavity) =>
    /\ CavityRings.sco1_len # CavityRings.sco2_len
    /\ InUnit(ss_attrs.automasking_cavity[call.vertex])

-----------------------------------------------------------------------------
(* Settings resolution: strokes with a brush that sets every combination   *)
(* of the flags of the three groups, and filters, under every such         *)
(* combination in the tool settings                                        *)

\* the flags that the brushes and the tool settings combine
GroupFlags ==
  {F \cup {FACE_SETS} :
     F \in SUBSET {CAVITY_NORMAL, CAVITY_INVERTED, CAVITY_USE_CURVE, VIEW_NORMAL,
                   BRUSH_NORMAL}}
  \cup {{}, {BOUNDARY_EDGES}, {CAVITY_USE_CURVE}}

SettingsInit == SessionInit(1)

SettingsBegin ==
  /\ ss.stroke_id = 0
  /\ \/ \E flags \in GroupFlags :
          StrokeBegin(Brush("PAINT", "SPHERE", FALSE, flags, 1), BrushRadius, 0, 1, 1)
     \/ FilterBegin(PaintBrush, 0, 1, 1)

SettingsCacheInit ==
  \E sd \in SculptSettings(GroupFlags) : CacheInit(sd)

SettingsNext == SettingsBegin \/ SettingsCacheInit

SpecSettings == SettingsInit /\ [][SettingsNext]_vars

\* the resolved settings take the numeric parameters of each group from the
\* brush when the brush sets the flag of the group, else from the tool
NumericFromBrushPerGroup ==
  LET brush == ss_cache.brush
      settings == automasking.settings
      from(flag) == IF Has(BrushFlags(brush), flag) THEN brush ELSE call.sd
  IN  /\ settings.view_normal_limit = from({VIEW_NORMAL}).view_normal_limit
      /\ settings.view_normal_falloff = from({VIEW_NORMAL}).view_normal_falloff
      /\ settings.start_normal_limit = from({BRUSH_NORMAL}).start_normal_limit
      /\ settings.start_normal_falloff = from({BRUSH_NORMAL}).start_normal_falloff
      /\ settings.cavity_curve = from(CAVITY_ALL).cavity_curve
      /\ settings.cavity_factor = from(CAVITY_ALL).cavity_factor
      /\ settings.cavity_blur_steps = from(CAVITY_ALL).cavity_blur_steps

\* the bits outside the cavity group are those of the tool and the brush
NonCavityUnion ==
  automasking.settings.flags \ CavityBits
    = (call.sd.automasking_flags \cup BrushFlags(ss_cache.brush)) \ CavityBits

\* C29, as stated: in the settings a cache_init resolved the bits outside
\* the cavity group are the union of the tool's and the brush's, the bits of
\* the cavity group are the brush's alone when the brush enables a cavity
\* mode and the tool's alone otherwise, and the numeric parameters of each
\* group are the brush's exactly when the brush sets the group's flag.
C29_BrushPrecedence ==
  (AfterCacheInit /\ automasking # NoCache) =>
    /\ NonCavityUnion
    /\ automasking.settings.flags \cap CavityBits
         = IF Has(BrushFlags(ss_cache.brush), CAVITY_ALL)
           THEN BrushFlags(ss_cache.brush) \cap CavityBits
           ELSE call.sd.automasking_flags \cap CavityBits
    /\ NumericFromBrushPerGroup

\* C29, amended: the bits of the cavity group are the brush's alone when the
\* brush enables a cavity mode, the tool's alone when only the tool enables
\* one, and the union of both when neither does (only the use-curve bit can
\* then be set).
C29_BrushPrecedencePerGroup ==
  (AfterCacheInit /\ automasking # NoCache) =>
    /\ NonCavityUnion
    /\ automasking.settings.flags \cap CavityBits
         = IF Has(BrushFlags(ss_cache.brush), CAVITY_ALL)
           THEN BrushFlags(ss_cache.brush) \cap CavityBits
           ELSE IF Has(call.sd.automasking_flags, CAVITY_ALL)
           THEN call.sd.automasking_flags \cap CavityBits
           ELSE (call.sd.automasking_flags \cup BrushFlags(ss_cache.brush)) \cap CavityBits
    /\ NumericFromBrushPerGroup

\* the brush and the tool both enable a cavity mode, with different bits,
\* and the brush's bits and cavity parameters were taken
C29_Witness ==
  /\ AfterCacheInit
  /\ automasking # NoCache
  /\ BrushFlags(ss_cache.brush) \cap CavityBits = {CAVITY_INVERTED}
  /\ call.sd.automasking_flags \cap CavityBits = {CAVITY_NORMAL, CAVITY_USE_CURVE}
  /\ VIEW_NORMAL \in call.sd.automasking_flags \ BrushFlags(ss_cache.brush)
  /\ automasking.settings.flags \cap CavityBits = {CAVITY_INVERTED}
  /\ automasking.settings.cavity_factor = ss_cache.brush.cavity_factor
  /\ automasking.settings.view_normal_limit = call.sd.view_normal_limit

-----------------------------------------------------------------------------
(* The reuse hash: settings_hash applied to the settings resolved for two  *)
(* strokes, a and b.  The settings of a stroke are resolved from its tool  *)
(* settings, brush and active face set; m is its mesh.                     *)

HashFlags ==
  {{CAVITY_NORMAL}, {CAVITY_NORMAL, CAVITY_USE_CURVE}, {CAVITY_NORMAL, BOUNDARY_EDGES},
   {CAVITY_NORMAL, FACE_SETS}, {FACE_SETS, BOUNDARY_FACE_SETS}}

HashStrokes ==
  {[sd |-> sd, brush |-> brush, m |-> m, face_set |-> face_set] :
     sd \in SculptSettings(HashFlags), brush \in {PaintBrush, MaskBrush},
     m \in {StripMesh, FanMesh}, face_set \in {1, 2}}

HashInit ==
  /\ mesh = 0
  /\ ss = NewSession
  /\ ss_cache = NoStroke
  /\ ss_attrs = NoAttrs
  /\ automasking = NoCache
  /\ pc = "called"
  /\ ret = NoRet
  /\ hist = NoHist
  /\ \E a \in HashStrokes, b \in HashStrokes : call = [fn |-> "settings_hash", a |-> a, b |-> b]

\* the settings cache_settings_update resolves for a stroke
Resolved(stroke) == cache_settings_update(stroke.sd, stroke.brush, stroke.face_set)

\* settings_hash(ob, automasking) runs for both strokes
SettingsHash ==
  /\ pc = "called"
  /\ call.fn = "settings_hash"
  /\ ret' = [op |-> "settings_hash",
             a |-> settings_hash(call.a.m, Resolved(call.a)),
             b |-> settings_hash(call.b.m, Resolved(call.b))]
  /\ pc' = "returned"
  /\ UNCHANGED <<mesh, ss, ss_cache, ss_attrs, automasking, hist, call>>

HashNext == SettingsHash

SpecHash == HashInit /\ [][HashNext]_vars

AfterSettingsHash == pc = "returned" /\ ret.op = "settings_hash"

\* the two strokes differ in what the hash is said to cover: the flag bits,
\* the vertex count and, for the modes that are enabled, the cavity
\* parameters and curve points and the initial face set
DifferInHashed ==
  LET a == Resolved(call.a)
      b == Resolved(call.b)
  IN  \/ a.flags # b.flags
      \/ SCULPT_vertex_count_get(call.a.m) # SCULPT_vertex_count_get(call.b.m)
      \/ /\ Has(a.flags, CAVITY_ALL)
         /\ \/ a.cavity_blur_steps # b.cavity_blur_steps
            \/ a.cavity_factor # b.cavity_factor
            \/ CurvePoints(a.cavity_curve) # CurvePoints(b.cavity_curve)
      \/ FACE_SETS \in a.flags /\ a.initial_face_set # b.initial_face_set

\* the two strokes differ in the number of boundary propagation steps of an
\* enabled boundary mode
DifferInBoundarySteps ==
  /\ Has(Resolved(call.a).flags, {BOUNDARY_EDGES, BOUNDARY_FACE_SETS})
  /\ boundary_propagation_steps(call.a.sd, call.a.brush)
       # boundary_propagation_steps(call.b.sd, call.b.brush)

\* C30, as stated: two strokes whose resolved settings differ in the flag
\* bits, the vertex count, the cavity parameters or curve points, the face
\* set or the boundary propagation step count of an enabled mode feed
\* different words to settings_hash.
C30_HashCoversAll ==
  (AfterSettingsHash /\ (DifferInHashed \/ DifferInBoundarySteps)) => ret.a # ret.b

-----------------------------------------------------------------------------
(* The queue of calc_blurred_cavity                                        *)
(*                                                                         *)
(* The queue is a Vector used as a ring buffer: the pending entries lie    *)
(* from start up to end, possibly wrapping around the end of the buffer.   *)
(* A buffer is a sequence, slot i of the source being element i + 1.       *)

\* the size queue.resize gives the buffer at the start, 64 in the source
QueueSize == 2

\* the vertices of the meshes the queue is run on
QueueVerts == 5

\* a slot no entry has been written to
UnsetVert == [vertex |-> -1, depth |-> 0]

\* what a read of blurvert.depth yields once the buffer blurvert refers to
\* has been given up by queue.resize: the depth it held if the memory is
\* intact, any depth otherwise
StaleDepths == 0 .. (MaxBlurSteps + 2)

StaleReads ==
  {[intact |-> TRUE, depth |-> 0]} \cup {[intact |-> FALSE, depth |-> d] : d \in StaleDepths}

\* the branch "if (nextend == start)" of calc_blurred_cavity: the buffer is
\* doubled and, if the pending entries wrap, those from start to the old
\* end of the buffer are moved to the end of the new buffer
QueueGrow(q) ==
  LET oldsize == Len(q.queue)
      newsize == 2 * oldsize
      resized == q.queue \o [i \in 1 .. oldsize |-> UnsetVert]
      n == oldsize - q.start
      moved == [i \in 1 .. newsize |->
                  IF i > newsize - n THEN resized[i - newsize + n + q.start]
                  ELSE resized[i]]
      wraps == q.end < q.start
  IN  [q EXCEPT !.queue = IF wraps THEN moved ELSE resized,
                !.start = IF wraps THEN newsize - n ELSE q.start,
                !.ref = IF q.ref.dangling THEN q.ref
                        ELSE [buf |-> q.queue, slot |-> q.ref.slot, dangling |-> TRUE],
                !.grown = @ + 1,
                !.wrapped = @ \/ wraps]

\* blurvert.depth, read through the reference taken at the dequeue
BlurvertDepth(q, stale) ==
  IF ~q.ref.dangling THEN q.queue[q.ref.slot + 1].depth
  ELSE IF stale.intact THEN q.ref.buf[q.ref.slot + 1].depth
  ELSE stale.depth

\* the push at the end of the neighbour loop of calc_blurred_cavity
QueuePush(q, blurvert2) ==
  LET nextend == (q.end + 1) % Len(q.queue)
      g == IF nextend = q.start THEN QueueGrow(q) ELSE q
  IN  [g EXCEPT !.queue[g.end + 1] = blurvert2,
                !.end = (g.end + 1) % Len(g.queue),
                !.reused = @ \/ (g.end = g.ref.slot)]

\* the neighbour loop of calc_blurred_cavity for the dequeued vertex v,
\* whose entry had the depth from_depth when it was dequeued
RECURSIVE QueueNeighbors(_, _, _, _, _)
QueueNeighbors(stale, v, from_depth, todo, q) ==
  IF todo = <<>> THEN q
  ELSE LET v2 == Head(todo)
           blurvert2 == [vertex |-> v2, depth |-> BlurvertDepth(q, stale) + 1]
       IN  IF v2 \in q.visit THEN QueueNeighbors(stale, v, from_depth, Tail(todo), q)
           ELSE QueueNeighbors(stale, v, from_depth, Tail(todo),
                  [QueuePush(q, blurvert2) EXCEPT
                     !.visit = @ \cup {v2},
                     !.pushed = Append(@, [vertex |-> v2, depth |-> blurvert2.depth,
                                           from |-> v, from_depth |-> from_depth])])

\* v3 += co for the x and z components the model keeps
AddCo(sum, co) == <<RAdd(sum[1], RInt(co[1])), RAdd(sum[2], RInt(co[2]))>>

\* the head of the while loop of calc_blurred_cavity: the entry at start is
\* taken out of the queue q and added to the sums
QueueDequeue(m, steps, vertex, q, blurvert) ==
  [q EXCEPT !.start = (q.start + 1) % Len(q.queue),
            !.ref = [buf |-> <<>>, slot |-> q.start, dangling |-> FALSE],
            !.order = Append(q.order, blurvert),
            !.expanded = IF blurvert.depth >= steps THEN q.expanded
                         ELSE Append(q.expanded, blurvert.vertex),
            !.sco1 = AddCo(q.sco1, Co(m, blurvert.vertex)),
            !.sno1 = q.sno1 + No(m, blurvert.vertex),
            !.len1_sum = RAdd(q.len1_sum, len_v3v3(Co(m, blurvert.vertex), Co(m, vertex))),
            !.sco1_len = q.sco1_len + 1,
            !.sco2 = IF blurvert.depth < steps THEN AddCo(q.sco2, Co(m, blurvert.vertex))
                     ELSE q.sco2,
            !.sno2 = IF blurvert.depth < steps THEN q.sno2 + No(m, blurvert.vertex)
                     ELSE q.sno2,
            !.sco2_len = IF blurvert.depth < steps THEN q.sco2_len + 1 ELSE q.sco2_len]

\* the body of the while loop of calc_blurred_cavity for the entry blurvert
QueueStep(m, steps, vertex, stale, q, blurvert) ==
  IF blurvert.depth >= steps THEN QueueDequeue(m, steps, vertex, q, blurvert)
  ELSE QueueNeighbors(stale, blurvert.vertex, blurvert.depth,
                      NeighborSeq(m, blurvert.vertex),
                      QueueDequeue(m, steps, vertex, q, blurvert))

\* the while loop of calc_blurred_cavity on the ring buffer
RECURSIVE QueueGather(_, _, _, _, _)
QueueGather(m, steps, vertex, stale, q) ==
  IF q.start = q.end THEN q
  ELSE QueueGather(m, steps, vertex, stale,
                   QueueStep(m, steps, vertex, stale, q, q.queue[q.start + 1]))

\* the queue calc_blurred_cavity starts its loop with
QueueStart(vertex) ==
  [queue |-> [i \in 1 .. QueueSize |->
                IF i = 1 THEN [vertex |-> vertex, depth |-> 0] ELSE UnsetVert],
   start |-> 0, end |-> 1, visit |-> {vertex},
   ref |-> [buf |-> <<>>, slot |-> 0, dangling |-> FALSE],
   order |-> <<>>, expanded |-> <<>>, pushed |-> <<>>,
   grown |-> 0, wrapped |-> FALSE, reused |-> FALSE,
   sco1 |-> <<RZero, RZero>>, sno1 |-> 0, len1_sum |-> RZero, sco1_len |-> 0,
   sco2 |-> <<RZero, RZero>>, sno2 |-> 0, sco2_len |-> 0]

\* the flat mesh of QueueVerts vertices with the given edges
QueueMesh(edges) ==
  MkMesh("Mesh", QueueVerts, edges,
         [i \in 1 .. QueueVerts |-> <<i - 1, 0>>],
         [i \in 1 .. QueueVerts |-> 1], {},
         [i \in 1 .. QueueVerts |-> {1}], {}, 0)

QueueInit ==
  /\ mesh = 0
  /\ ss = NewSession
  /\ ss_cache = NoStroke
  /\ automasking = NoCache
  /\ pc = "called"
  /\ ret = NoRet
  /\ hist = NoHist
  /\ ss_attrs = [NoAttrs EXCEPT !.automasking_cavity = [v \in 0 .. (QueueVerts - 1) |-> RZero]]
  /\ \E edges \in SUBSET VertPairs(QueueVerts),
        vertex \in 0 .. (QueueVerts - 1),
        blur_steps \in 0 .. MaxBlurSteps,
        stale \in StaleReads :
       call = [fn |-> "calc_blurred_cavity",
               m |-> QueueMesh(edges),
               settings |-> [flags |-> {CAVITY_NORMAL}, cavity_factor |-> ROne],
               blur_steps |-> blur_steps, vertex |-> vertex, stale |-> stale]

\* calc_blurred_cavity(depsgraph, object, automasking, steps, vertex) runs
\* with the ring buffer
QueueBlurredCavity ==
  /\ pc = "called"
  /\ call.fn = "calc_blurred_cavity"
  /\ \E q \in {QueueGather(call.m, call.blur_steps + 1, call.vertex, call.stale,
                            QueueStart(call.vertex))} :
         /\ ss_attrs' = [ss_attrs EXCEPT !.automasking_cavity[call.vertex] =
                           calc_blurred_cavity_end(call.m, call.settings, call.vertex, q)]
         /\ ret' = [op |-> "calc_blurred_cavity", order |-> q.order,
                    expanded |-> q.expanded, pushed |-> q.pushed, grown |-> q.grown,
                    wrapped |-> q.wrapped, reused |-> q.reused]
  /\ pc' = "returned"
  /\ UNCHANGED <<mesh, ss, ss_cache, automasking, hist, call>>

QueueNext == QueueBlurredCavity

SpecQueue == QueueInit /\ [][QueueNext]_vars

\* the hop distance of v from the seed of the gather
HopsFromSeed(v) == Hops(call.m, {call.vertex}, v, 0)

\* the vertices at the hop distance d from the seed or nearer
WithinHops(d) == {v \in Verts(call.m) : HopsFromSeed(v) \in 0 .. d}

Dequeued == {ret.order[i].vertex : i \in DOMAIN ret.order}

Expanded == {ret.expanded[i] : i \in DOMAIN ret.expanded}

\* C31: the gather from a vertex dequeues exactly the vertices at hop
\* distance <= cavity_blur_steps + 1 from it, each once, and expands only
\* those of depth <= cavity_blur_steps, also when the queue fills, doubles
\* and wraps.
C31_GatherExact ==
  AfterBlurredCavity =>
    /\ Dequeued = WithinHops(call.blur_steps + 1)
    /\ \A i, j \in DOMAIN ret.order : ret.order[i].vertex = ret.order[j].vertex => i = j
    /\ Expanded \subseteq WithinHops(call.blur_steps)

\* C36: every enqueued vertex gets the depth of the vertex it was found
\* from plus one, its hop distance from the seed, also when the queue grows
\* or the slot of the dequeued entry is written by a push while its
\* neighbours are iterated.
C36_DepthIsParentPlusOne ==
  AfterBlurredCavity =>
    \A i \in DOMAIN ret.pushed :
      /\ ret.pushed[i].depth = ret.pushed[i].from_depth + 1
      /\ ret.pushed[i].depth = HopsFromSeed(ret.pushed[i].vertex)

-----------------------------------------------------------------------------
(* The island test of the live path *)

\* One stroke or filter on the strip mesh, started on either island
IslandInit == SessionInit(1)

IslandBegin ==
  /\ ss.stroke_id = 0
  /\ \E active_vert \in {0, 3} :
       \/ \E brush \in FactorBrushes : StrokeBegin(brush, BrushRadius, active_vert, 1, 1)
       \/ FilterBegin(GrabBrush, active_vert, 1, 1)

IslandCacheInit ==
  \E sd \in SculptSettings(SUBSET AllFlags) : CacheInit(sd)

IslandNext == IslandBegin \/ IslandCacheInit \/ Query

SpecIsland == IslandInit /\ [][IslandNext]_vars

\* the cache with topology mode switched off
WithoutTopology(cache) == [cache EXCEPT !.settings.flags = @ \ {TOPOLOGY}]

\* the step is a factor query in topology mode without a factor buffer
LiveTopologyQuery ==
  /\ pc = "ready"
  /\ ret'.op = "factor_get"
  /\ ret'.queries = ret.queries + 1
  /\ TOPOLOGY \in automasking.settings.flags
  /\ ss_attrs.automasking_factor = NoAttr

\* the query of the step is for a vertex of the island the stroke began on
SameIsland ==
  vert_id_get(Meshes[mesh], call'.vert) = vert_id_get(Meshes[mesh], ss.active_vert)

\* what the query of the step returns with topology mode switched off
QueryWithoutTopology ==
  factor_get(Meshes[mesh], WithoutTopology(automasking), ss_cache, ss_attrs,
             call'.vert, call'.orig_normal).value

IslandStep ==
  LiveTopologyQuery =>
    IF SameIsland THEN ret'.value = QueryWithoutTopology ELSE ret'.value = RZero

\* C32: in topology mode without a precomputed buffer the live query returns
\* 0 for every vertex of another island than the one of the vertex active
\* at the stroke's start, and for a vertex of the same island it returns
\* what it returns without topology mode.
C32_IslandGate == [][IslandStep]_vars

\* a stroke begun on the second island: a vertex of the first was zeroed by
\* the island test, or a vertex of the second got a factor above 0
C32_Witness ==
  /\ AfterFactorGet
  /\ TOPOLOGY \in automasking.settings.flags
  /\ ss_attrs.automasking_factor = NoAttr
  /\ ss.active_vert = 3
  /\ \/ call.vert = 0 /\ ret.path = "island"
     \/ call.vert = 4 /\ ret.value = ROne

-----------------------------------------------------------------------------
(* The stamps and the cavity values over consecutive strokes.  hist holds,  *)
(* per vertex, the stroke id its cavity value was last computed under, -1   *)
(* if it never was.                                                         *)

StampFlags ==
  {{CAVITY_NORMAL}, {CAVITY_NORMAL, VIEW_NORMAL}, {CAVITY_NORMAL, VIEW_NORMAL, VIEW_OCCLUSION},
   {VIEW_NORMAL, VIEW_OCCLUSION}}

StampBrushes == {PaintBrush, DrawFaceSetsBrush}

StampInit == SessionInit(1)

StampBegin ==
  /\ ss.stroke_id < MaxStrokes
  /\ \E brush \in StampBrushes : StrokeBegin(brush, BrushRadius, 0, 1, 1)

StampCacheInit ==
  \E sd \in SculptSettings(StampFlags) : CacheInit(sd)

\* the stroke id the cavity value of each vertex was computed under
CavityFor ==
  IF "cavity_for" \in DOMAIN hist THEN hist.cavity_for
  ELSE [v \in Verts(Meshes[mesh]) |-> -1]

\* factor_get for vert, as FactorGet, noting whether it ran
\* calc_blurred_cavity or took the cavity value as stored
StampQuery(vert) ==
  /\ pc = "ready"
  /\ automasking # NoCache
  /\ ret.queries < MaxQueries + 1
  /\ LET ran(r) ==
           <<"automasking_cavity", vert>> \in factor_get_writes(automasking, ss_attrs, vert, r)
         returned(r) ==
           /\ ss_attrs' = r.attrs
           /\ ret' = [op |-> "factor_get", value |-> r.value, path |-> r.path,
                      queries |-> ret.queries + 1, log |-> ret.log,
                      cavity |-> IF ~Has(automasking.settings.flags, CAVITY_ALL)
                                    \/ r.path \notin {"buffer", "live"}
                                 THEN "unused"
                                 ELSE IF ran(r) THEN "computed" ELSE "stored"]
           /\ hist' = [cavity_for |->
                         [CavityFor EXCEPT ![vert] = IF ran(r) THEN automasking.current_stroke_id
                                                     ELSE @]]
     IN  returned(factor_get(Meshes[mesh], automasking, ss_cache, ss_attrs, vert,
                             OrigNormal(Meshes[mesh], automasking, vert)))
  /\ call' = [fn |-> "factor_get", vert |-> vert,
               orig_normal |-> OrigNormal(Meshes[mesh], automasking, vert)]
  /\ UNCHANGED <<mesh, ss, ss_cache, automasking, pc>>

\* the stroke ends, as StrokeDone
StampDone ==
  /\ pc = "ready"
  /\ ss' = IF automasking # NoCache /\ brush_type_can_reuse_automask(ss_cache.brush.type)
           THEN [ss EXCEPT !.last_automasking_settings_hash =
                             settings_hash(Meshes[mesh], automasking.settings)]
           ELSE ss
  /\ ss_attrs' = [ss_attrs EXCEPT !.automasking_factor = NoAttr]
  /\ ss_cache' = NoStroke
  /\ automasking' = NoCache
  /\ pc' = "idle"
  /\ ret' = [NoRet EXCEPT !.op = "stroke_done"]
  /\ UNCHANGED <<mesh, call, hist>>

StampNext ==
  \/ StampBegin
  \/ StampCacheInit
  \/ \E vert \in {0, 2} : StampQuery(vert)
  \/ StampDone

SpecStamp == StampInit /\ [][StampNext]_vars

\* C33: a query that takes a vertex' cavity value as stored, its stamp being
\* the cache's current_stroke_id, finds a value calc_blurred_cavity wrote
\* under that stroke id: nothing stamps a vertex with the current id in
\* cavity mode without its cavity value having been computed for the id.
C33_StoredWasComputed ==
  (AfterFactorGet /\ ret.cavity = "stored") =>
    CavityFor[call.vert] = automasking.current_stroke_id

-----------------------------------------------------------------------------
(* Properties of the attribute store (continued) *)

\* C35: BKE_sculpt_attribute_destroy is invoked on live attributes only: no
\* sequence of calls of the store makes
\* BKE_sculpt_attributes_destroy_temporary_stroke or
\* BKE_sculpt_attribute_destroy_temporary_all reach BLI_assert(attr->used)
\* with a slot that is not in use.
C35_DestroyOnlyLive ==
  ret.op \in {"destroy_temporary_stroke", "destroy_temporary_all"} => 2932 \notin ret.trips

-----------------------------------------------------------------------------
(* A stroke that finds a factor buffer an earlier stroke left behind; hist  *)
(* holds the calculators that stroke ran.                                  *)

\* the buffer left behind
LeftFactor == [v \in Verts(Meshes[1]) |-> RHalf]

LeftoverInit ==
  /\ mesh = 1
  /\ ss = NewSession
  /\ ss_cache = NoStroke
  /\ \/ ss_attrs = NoAttrs /\ hist = NoHist
     \/ /\ ss_attrs = [NoAttrs EXCEPT !.automasking_factor = LeftFactor]
        /\ hist = [NoHist EXCEPT !.log = <<"init">>]
  /\ automasking = NoCache
  /\ pc = "idle"
  /\ ret = NoRet
  /\ call = NoCall

SpecLeftover == LeftoverInit /\ [][FactorNext]_vars

\* C34: when cache_init has returned a cache the factor buffer exists exactly
\* if the settings needed the precompute, and a query of a stroke that
\* skipped the precompute does not read the buffer an earlier stroke left.
C34_BufferIffPrecompute ==
  /\ (AfterCacheInit /\ automasking # NoCache) =>
       (ss_attrs.automasking_factor # NoAttr
          <=> needs_factors_cache(call.sd, ss_cache.brush))
  /\ (AfterCacheInit /\ automasking # NoCache) =>
       (ss_attrs.automasking_factor # NoAttr <=> ret.log # <<>>)
  /\ (AfterFactorGet /\ ret.log = <<>>) => ret.path # "buffer"

\* a stroke that needed no precompute found a buffer and was queried
C34_Witness ==
  /\ AfterFactorGet
  /\ ret.log = <<>>
  /\ hist.log = <<"init">>
  /\ ss_attrs.automasking_factor = NoAttr
  /\ ret.path = "live"
  /\ ret.queries = 1

-----------------------------------------------------------------------------
(* The topology flood on the three backends *)

Backends == {"Mesh", "Grids", "BMesh"}

\* the vertices a fill has marked with factor 1
Marked(factor) == {v \in DOMAIN factor : factor[v] = ROne}

BackendInit ==
  /\ mesh = 0
  /\ ss = NewSession
  /\ ss_cache = NoStroke
  /\ ss_attrs = NoAttrs
  /\ automasking = NoCache
  /\ pc = "called"
  /\ ret = NoRet
  /\ hist = NoHist
  /\ \E i \in DOMAIN Meshes, brush \in TopologyBrushes, radius \in 1 .. MaxRadius,
        stroke \in BOOLEAN :
       \E active_vert \in Verts(Meshes[i]) :
         call = [fn |-> "fill_topology_automasking_factors",
                 m |-> Meshes[i], brush |-> brush, radius |-> radius,
                 stroke |-> stroke, active_vert |-> active_vert]

\* fill_topology_automasking_factors on the graph, coordinates and brush of
\* the call, once per backend, each on a zeroed buffer
BackendFill ==
  /\ pc = "called"
  /\ call.fn = "fill_topology_automasking_factors"
  /\ ret' = [op |-> "fill_topology_automasking_factors",
             marked |-> [b \in Backends |->
                           Marked(fill_topology_automasking_factors(
                                    [call.m EXCEPT !.pbvh = b],
                                    [v \in Verts(call.m) |-> RZero],
                                    call.stroke, call.radius, call.brush,
                                    call.active_vert))]]
  /\ pc' = "returned"
  /\ UNCHANGED <<mesh, ss, ss_cache, ss_attrs, automasking, hist, call>>

BackendNext == BackendFill

SpecBackends == BackendInit /\ [][BackendNext]_vars

AfterBackendFill == pc = "returned" /\ ret.op = "fill_topology_automasking_factors"

\* C37: for the same adjacency graph, coordinates and brush the mesh, grids
\* and bmesh fills mark exactly the same set of vertices with factor 1.
C37_BackendsAgree ==
  AfterBackendFill =>
    /\ ret.marked["Mesh"] = ret.marked["Grids"]
    /\ ret.marked["Mesh"] = ret.marked["BMesh"]

-----------------------------------------------------------------------------
(* The occlusion test of the precompute over the whole range of stroke ids *)

\* the stroke counts a session has reached before the strokes looked at
StrokesBefore == {0, 253}

SentinelFlags == {{}, {VIEW_NORMAL}, {VIEW_NORMAL, VIEW_OCCLUSION}}

SentinelBrushes == {PaintBrush, DrawFaceSetsBrush}

\* a session in which StrokesBefore strokes without automasking were made
SentinelInit ==
  /\ mesh \in DOMAIN Meshes
  /\ \E n \in StrokesBefore : ss = [NewSession EXCEPT !.stroke_id = n]
  /\ ss_cache = NoStroke
  /\ ss_attrs = NoAttrs
  /\ automasking = NoCache
  /\ pc = "idle"
  /\ ret = NoRet
  /\ hist = NoHist
  /\ call = NoCall

SentinelBegin ==
  /\ \E n \in StrokesBefore : ss.stroke_id \in n .. (n + MaxStrokes - 1)
  /\ \E brush \in SentinelBrushes : StrokeBegin(brush, BrushRadius, 0, 1, 1)

SentinelCacheInit ==
  \E sd \in SculptSettings(SentinelFlags) : CacheInit(sd)

SentinelNext == SentinelBegin \/ SentinelCacheInit \/ Query \/ StrokeDone

SpecSentinel == SentinelInit /\ [][SentinelNext]_vars

\* cache_init has just run normal_occlusion_automasking_fill with the
\* occlusion and the view normal mode on
AfterOcclusionFill ==
  /\ AfterCacheInit
  /\ LogHas("normal_occlusion")
  /\ {VIEW_NORMAL, VIEW_OCCLUSION} \subseteq automasking.settings.flags

\* C38: the precompute with the occlusion and the view normal mode on
\* performs the occlusion test for every vertex and stores its result,
\* whatever the 8-bit stroke id is, 255 included.
C38_OcclusionStoredForEveryId ==
  AfterOcclusionFill =>
    \A v \in Verts(Meshes[mesh]) :
      ss_attrs.automasking_occlusion[v] =
        IF SCULPT_vertex_is_occluded(Meshes[mesh], v) THEN 2 ELSE 1

-----------------------------------------------------------------------------
(* The angular falloff as a function of the angle *)

\* the angles and limits normal_calc is applied to, in half angle units
FalloffAngles == 0 .. (2 * PiUnits)

FalloffInit ==
  /\ mesh = 0
  /\ ss = NewSession
  /\ ss_cache = NoStroke
  /\ ss_attrs = NoAttrs
  /\ automasking = NoCache
  /\ pc = "called"
  /\ ret = NoRet
  /\ hist = NoHist
  /\ \E angle \in FalloffAngles, wider \in FalloffAngles,
        limit_lower \in FalloffAngles, limit_upper \in FalloffAngles :
       /\ angle <= wider
       /\ call = [fn |-> "normal_calc", angle |-> angle, wider |-> wider,
                  limit_lower |-> limit_lower, limit_upper |-> limit_upper]

\* normal_calc for the two angles of the call, with the same limits
FalloffCalc ==
  /\ pc = "called"
  /\ call.fn = "normal_calc"
  /\ ret' = [op |-> "normal_calc",
             value |-> normal_calc(call.angle, call.limit_lower, call.limit_upper),
             wider |-> normal_calc(call.wider, call.limit_lower, call.limit_upper)]
  /\ pc' = "returned"
  /\ UNCHANGED <<mesh, ss, ss_cache, ss_attrs, automasking, hist, call>>

FalloffNext == FalloffCalc

SpecFalloff == FalloffInit /\ [][FalloffNext]_vars

AfterFalloff == pc = "returned" /\ ret.op = "normal_calc"

\* C39: for limits with lower < upper, normal_calc is non-increasing in the
\* angle: 1 at every angle at or below the lower limit, 0 at every angle at
\* or above the upper limit, the upper limit itself included, and between
\* 0 and 1 for the angles strictly inside the interval.
C39_FalloffMonotone ==
  (AfterFalloff /\ call.limit_lower < call.limit_upper) =>
    /\ RLeq(ret.wider, ret.value)
    /\ call.angle <= call.limit_lower => ret.value = ROne
    /\ call.angle >= call.limit_upper => ret.value = RZero
    /\ (call.angle > call.limit_lower /\ call.angle < call.limit_upper) =>
         RLeq(RZero, ret.value) /\ RLeq(ret.value, ROne)

=============================================================================
